---- MODULE Spec2Model ----
(***************************************************************************)
(* Model of the kalshi-sports-alpha decision layer and backtest engine:    *)
(*   backtest/simulator.py  BacktestSimulator (replay state machine)       *)
(*   backtest/fills.py      FillModel / SlippageModel                      *)
(*   strategy/portfolio.py  PortfolioManager                               *)
(*   strategy/aggregator.py SignalAggregator                               *)
(*                                                                         *)
(* Python floats are modelled in fixed point.  Prices and money are        *)
(* integers in units of 1/ONE dollar, contract sizes are integers in units *)
(* of 1/SizeUnit contract (the simulator sizes an order as                 *)
(* capital * max_position_pct, which is not a whole number of contracts).  *)
(* Every float operation that can leave the grid is rounded down to it.    *)
(***************************************************************************)
EXTENDS Integers, Sequences, FiniteSets, TLC

\* ------------------------------------------------------------------------
\* Fixed-point units
\* ------------------------------------------------------------------------
ONE == 100000        \* the float 1.0 in price/money units
SizeUnit == 100      \* one contract in size units

Min(a, b) == IF a < b THEN a ELSE b
Max(a, b) == IF a > b THEN a ELSE b

\* Python's int() on a non-negative float size: drop the fractional contracts.
IntContracts(size) == (size \div SizeUnit) * SizeUnit

NoneVal == -1        \* Python's None in an Optional numeric field

\* ------------------------------------------------------------------------
\* backtest/fills.py
\* ------------------------------------------------------------------------
BaseSlippageBps == 10          \* SlippageModel.base_slippage_bps
SizeImpactFactor == 10000      \* SlippageModel.size_impact_factor = 0.1
VolatilityFactor == 1          \* SlippageModel.volatility_factor = 1.0
DefaultVolatility == 1000      \* simulate_fill(volatility=0.01)
DefaultSpread == 2000          \* simulate_fill(spread=0.02)
PriceFloor == 1000             \* clamp lower bound 0.01
PriceCeil == 99000             \* clamp upper bound 0.99

\* random.uniform(min_fill_pct, 1.0) with min_fill_pct = 0.5, in percent:
\* the draws of an execution on its own, and those of a fill inside a run.
FillPcts == {50, 75, 100}
RunFillPcts == {50}

\* SlippageModel.estimate_slippage
EstimateSlippage(size, depth, volatility, spread) ==
    LET base == (BaseSlippageBps * ONE) \div 10000
        sized == IF depth > 0
                 THEN base + (SizeImpactFactor * size) \div (depth * SizeUnit)
                 ELSE base
        vol == sized + (sized * volatility * VolatilityFactor) \div ONE
    IN Max(vol, spread \div 2)

\* The value simulate_fill returns for "no fill" (Python None).
NoFill == [requested_size |-> 0, filled_size |-> 0, avg_price |-> 0, slippage |-> 0]

\* a filled size that ignores the depth
FilledSizeIgnoringDepth(size, depth, partial, pct) ==
    IF partial THEN IntContracts((size * pct) \div 100) ELSE size

\* The filled size simulate_fill computes.  partial is the outcome of
\* random.random() < partial_fill_prob and pct the draw of random.uniform.
FilledSize(size, depth, partial, pct) ==
    IF size > depth * SizeUnit THEN depth * SizeUnit
    ELSE IF partial THEN IntContracts((size * pct) \div 100)
    ELSE size

\* FillModel.simulate_fill
SimulateFill(side, size, price, depth, volatility, spread, partial, pct) ==
    IF size <= 0 \/ depth <= 0 THEN NoFill
    ELSE LET filled == FilledSize(size, depth, partial, pct) IN
         IF filled <= 0 THEN NoFill
         ELSE LET slip == EstimateSlippage(filled, depth, volatility, spread)
                  raw == IF side = "YES" THEN price + slip ELSE price - slip
              IN [requested_size |-> size,
                  filled_size |-> filled,
                  avg_price |-> Max(PriceFloor, Min(PriceCeil, raw)),
                  slippage |-> slip]

\* ------------------------------------------------------------------------
\* backtest/simulator.py: configuration and inputs
\* ------------------------------------------------------------------------
StartDate == 1                 \* BacktestConfig.start_date
EndDate == 2                   \* BacktestConfig.end_date
InitialCapital == 400 * ONE    \* BacktestConfig.initial_capital
MaxPositionPct == 5            \* BacktestConfig.max_position_pct = 0.05, percent
IncludeFees == TRUE            \* BacktestConfig.include_fees
FeePerContract == 1000         \* BacktestConfig.fee_per_contract = 0.01
MinExecSize == 10              \* "if size < 10" in _execute_signal, contracts

MaxSnapshots == 3              \* snapshots the historical stream yields
MaxSignals == 2                \* signals the generators return over a run
Generators == <<"gen1", "gen2">>  \* the signal_generators list

Markets == {"M1", "M2"}
Directions == {"YES", "NO"}
Timestamps == (StartDate - 1)..(EndDate + 1)
Depths == {0, 16}
SnapPrices == {50000}
\* settled_markets: market -> settled outcome, "none" where the key is absent
SettledOptions ==
    { [m \in Markets |-> "none"],
      [m \in Markets |-> IF m = "M1" THEN "YES" ELSE "none"] }
\* keys of a snapshot besides the ones the simulator reads
OutcomeKeys == {"result", "outcome", "future_price"}
ExtraKeySets == { {"volume"}, {"volume", "result"} }

\* a snapshot carries the key "result" when it lists a settled market
Snapshots ==
    { s \in [timestamp : Timestamps, market_id : Markets, price : SnapPrices,
             depth : Depths, settled_markets : SettledOptions,
             keys : ExtraKeySets] :
        ("result" \in s.keys)
            <=> (\E mk \in Markets : s.settled_markets[mk] # "none") }

NoSnapshot ==
    [timestamp |-> NoneVal, market_id |-> "", price |-> 0, depth |-> 0,
     settled_markets |-> [m \in Markets |-> "none"], keys |-> {}]

\* what gen.generate(snapshot) does: returns None, raises, or returns a signal
GenSignals ==
    { [kind |-> "signal", direction |-> "YES", max_size |-> 15],
      [kind |-> "signal", direction |-> "NO", max_size |-> 1000],
      [kind |-> "signal", direction |-> "NO", max_size |-> 5] }
GenNone == [kind |-> "none", direction |-> "", max_size |-> 0]
GenRaise == [kind |-> "raise", direction |-> "", max_size |-> 0]
GenOutcomes == {GenNone, GenRaise} \cup GenSignals

VARIABLES
    pc,               \* position of BacktestSimulator.run
    cur,              \* the snapshot being processed
    signals,          \* signals of this tick still to execute
    gen_input,        \* the snapshot last handed to gen.generate
    capital,          \* BacktestState.capital
    positions,        \* BacktestState.positions
    closed_positions, \* BacktestState.closed_positions
    fills,            \* BacktestState.fills
    equity_curve,     \* run's equity_curve
    last_ts,          \* timestamp of the snapshot taken from the stream last
    nconsumed,        \* snapshots taken from the stream so far
    order_violated,   \* a snapshot older than its predecessor was taken
    nsignals,         \* signals returned by generators so far
    gen_outs          \* what each generator did in the generation just done

bvars == <<pc, cur, signals, gen_input, capital, positions, closed_positions,
           fills, equity_curve, last_ts, nconsumed, order_violated, nsignals,
           gen_outs>>

VARIABLES
    f_args,           \* the arguments every execution is given
    f_runs            \* what each execution of simulate_fill returned

fvars == <<f_args, f_runs>>

VARIABLES
    held,             \* PortfolioManager.positions
    cl_rec,           \* argument of the last check_limits call
    cl_result,        \* what the last check_limits call returned
    pm_recs_in,       \* the batch given to the last adjust_for_correlation
    pm_recs_after,    \* the same recommendations after the call
    pm_adjusted       \* the list the call returned

pvars == <<held, cl_rec, cl_result, pm_recs_in, pm_recs_after, pm_adjusted>>

VARIABLES
    a_signals,        \* the signals given to aggregate
    a_cfg,            \* the SignalAggregator's configuration
    a_done,           \* aggregate has been called
    a_result          \* what aggregate returned

avars == <<a_signals, a_cfg, a_done, a_result>>

VARIABLES
    ev_first,         \* arguments and result of a _calculate_expected_value call
    ev_second         \* arguments and result of a second call

evars == <<ev_first, ev_second>>

VARIABLES
    rk_aggs,          \* rank_all's aggregated_signals
    rk_market_data,   \* rank_all's market_data
    rk_cfg,           \* the ranker's thresholds
    rk_done,          \* rank_all has returned
    rk_result,        \* what rank_all returned
    rk_raised,        \* rank_all has raised
    rk_ranked         \* what rank did on the same arguments

rvars == <<rk_aggs, rk_market_data, rk_cfg, rk_done, rk_result, rk_raised,
           rk_ranked>>

VARIABLES
    sz_kelly,         \* arguments and result of a _kelly_size call
    sz_calc           \* arguments and result of a calculate call

svars == <<sz_kelly, sz_calc>>

VARIABLES
    dd_equities,      \* calculate_drawdown's equities
    dd_done,          \* calculate_drawdown has returned
    dd_result         \* what calculate_drawdown returned

dvars == <<dd_equities, dd_done, dd_result>>

\* the state of the calculators of the strategy layer and of the metrics
xvars == <<evars, rvars, svars, dvars>>

VARIABLES
    sc_stream,        \* the values the random module yields from its seed on
    sc_pos,           \* the random module's state: values drawn so far
    sc_results        \* ScenarioRunner.results

scvars == <<sc_stream, sc_pos, sc_results>>

VARIABLES
    th_cfg,           \* TradeHistoryConfig.max_trades_per_market
    th_history,       \* TradeHistoryStore._history
    th_calls          \* add_trades calls so far, the clock of last_updated

tvars == <<th_cfg, th_history, th_calls>>

VARIABLES
    ex_cfg,           \* the BacktestConfig of the executions
    ex_capital,       \* BacktestState.capital
    ex_fills          \* BacktestState.fills

exvars == <<ex_cfg, ex_capital, ex_fills>>

\* the state of the scenario runner, of the trade history store and of
\* the executions under any configuration
zvars == <<scvars, tvars, exvars>>

\* BacktestSimulator.__init__ and the start of run
BacktestInit ==
    /\ pc = "scan"
    /\ cur = NoSnapshot
    /\ signals = <<>>
    /\ gen_input = NoSnapshot
    /\ capital = InitialCapital
    /\ positions = <<>>
    /\ closed_positions = <<>>
    /\ fills = <<>>
    /\ equity_curve = <<>>
    /\ last_ts = NoneVal
    /\ nconsumed = 0
    /\ order_violated = FALSE
    /\ nsignals = 0
    /\ gen_outs = <<>>

\* run: "for snapshot in historical_data" with the date-range tests
NextSnapshot ==
    /\ pc = "scan"
    /\ nconsumed < MaxSnapshots
    /\ \E s \in Snapshots :
        /\ nconsumed' = nconsumed + 1
        /\ last_ts' = s.timestamp
        /\ order_violated' = (order_violated \/ s.timestamp < last_ts)
        /\ IF s.timestamp < StartDate
           THEN /\ pc' = "scan"
                /\ cur' = cur
           ELSE IF s.timestamp > EndDate
           THEN /\ pc' = "finished"
                /\ cur' = cur
           ELSE /\ pc' = "settle"
                /\ cur' = s
    /\ UNCHANGED <<signals, gen_input, capital, positions, closed_positions,
                   fills, equity_curve, nsignals, gen_outs>>
    /\ UNCHANGED <<fvars, pvars, avars, xvars, zvars>>

\* run: the stream is exhausted
StreamEnd ==
    /\ pc = "scan"
    /\ pc' = "finished"
    /\ UNCHANGED <<cur, signals, gen_input, capital, positions,
                   closed_positions, fills, equity_curve, last_ts, nconsumed,
                   order_violated, nsignals, gen_outs>>
    /\ UNCHANGED <<fvars, pvars, avars, xvars, zvars>>

\* Position.pnl: None while exit_price is None
Pnl(p) ==
    IF p.exit_price = NoneVal THEN [none |-> TRUE, value |-> 0]
    ELSE IF p.direction = "YES"
    THEN [none |-> FALSE,
          value |-> ((p.exit_price - p.entry_price) * p.size) \div SizeUnit]
    ELSE [none |-> FALSE,
          value |-> ((p.entry_price - p.exit_price) * p.size) \div SizeUnit]

\* _check_settlements: the loop over a copy of state.positions
IsSettled(p, snap) == snap.settled_markets[p.market_id] # "none"

\* a settlement that records the exit time only
SettlePositionExitTimeOnly(p, snap) ==
    [p EXCEPT !.exit_time = snap.timestamp]

SettlePosition(p, snap) ==
    LET result == snap.settled_markets[p.market_id] IN
    [p EXCEPT !.exit_price = IF p.direction = result THEN ONE ELSE 0,
              !.exit_time = snap.timestamp]

\* a settlement that pays every settled position, matched or not
PayoutAlways(p, snap) == (p.size * ONE) \div SizeUnit

Payout(p, snap) ==
    IF p.direction = snap.settled_markets[p.market_id]
    THEN (p.size * ONE) \div SizeUnit
    ELSE 0

RECURSIVE SettleLoop(_, _, _)
\* st = [capital, positions, closed_positions]; todo = positions still to visit
SettleLoop(todo, snap, st) ==
    IF todo = <<>> THEN st
    ELSE LET p == Head(todo) IN
         IF IsSettled(p, snap)
         THEN LET i == CHOOSE k \in 1..Len(st.positions) :
                        /\ st.positions[k] = p
                        /\ \A j \in 1..(k - 1) : st.positions[j] # p
              IN SettleLoop(Tail(todo), snap,
                    [capital |-> st.capital + Payout(p, snap),
                     positions |-> [k \in 1..(Len(st.positions) - 1) |->
                                      IF k < i THEN st.positions[k]
                                      ELSE st.positions[k + 1]],
                     closed_positions |->
                         Append(st.closed_positions, SettlePosition(p, snap))])
         ELSE SettleLoop(Tail(todo), snap, st)

CheckSettlements ==
    /\ pc = "settle"
    /\ LET st == SettleLoop(positions, cur,
                    [capital |-> capital, positions |-> positions,
                     closed_positions |-> closed_positions])
       IN /\ capital' = st.capital
          /\ positions' = st.positions
          /\ closed_positions' = st.closed_positions
    /\ pc' = "generate"
    /\ UNCHANGED <<cur, signals, gen_input, fills, equity_curve, last_ts,
                   nconsumed, order_violated, nsignals, gen_outs>>
    /\ UNCHANGED <<fvars, pvars, avars, xvars, zvars>>

RECURSIVE CollectUntilRaise(_)
\* a collection that the first raising generator ends
CollectUntilRaise(outs) ==
    IF outs = <<>> THEN <<>>
    ELSE IF Head(outs).kind = "raise" THEN <<>>
    ELSE IF Head(outs).kind = "signal"
         THEN <<Head(outs)>> \o CollectUntilRaise(Tail(outs))
         ELSE CollectUntilRaise(Tail(outs))

\* _generate_signals: every generator is called with the snapshot
RECURSIVE Collect(_)
Collect(outs) ==
    IF outs = <<>> THEN <<>>
    ELSE IF Head(outs).kind = "signal"
         THEN <<Head(outs)>> \o Collect(Tail(outs))
         ELSE Collect(Tail(outs))

SnapshotForGenerators(snap) == snap

GenerateSignals ==
    /\ pc = "generate"
    /\ \E outs \in [1..Len(Generators) -> GenOutcomes] :
        /\ Len(Collect(outs)) + nsignals <= MaxSignals
        /\ signals' = Collect(outs)
        /\ nsignals' = nsignals + Len(Collect(outs))
        /\ gen_outs' = outs
    /\ gen_input' = SnapshotForGenerators(cur)
    /\ pc' = "execute"
    /\ UNCHANGED <<cur, capital, positions, closed_positions, fills,
                   equity_curve, last_ts, nconsumed, order_violated>>
    /\ UNCHANGED <<fvars, pvars, avars, xvars, zvars>>

\* a size that the capital does not limit
RequestedSizeUncapped(signal, cap, max_position_pct) ==
    signal.max_size * SizeUnit

\* _execute_signal: min(signal.max_size, capital * max_position_pct)
RequestedSizeAt(signal, cap, max_position_pct) ==
    Min(signal.max_size * SizeUnit, (cap * max_position_pct) \div ONE)

\* _execute_signal: the size requested from the fill model
RequestedSize(signal, cap) == RequestedSizeAt(signal, cap, MaxPositionPct)

\* _execute_signal: the cost under a configuration
FillCostAt(fill, include_fees, fee_per_contract) ==
    (fill.filled_size * fill.avg_price) \div SizeUnit
    + (IF include_fees THEN (fill.filled_size * fee_per_contract) \div SizeUnit
       ELSE 0)

\* a cost that leaves out the fee
FillCostWithoutFee(fill) == (fill.filled_size * fill.avg_price) \div SizeUnit

FillCost(fill) == FillCostAt(fill, IncludeFees, FeePerContract)

ExecuteSignal ==
    /\ pc = "execute"
    /\ signals # <<>>
    /\ LET signal == Head(signals)
           size == RequestedSize(signal, capital)
       IN IF size < MinExecSize * SizeUnit
          THEN UNCHANGED <<capital, positions, fills>>
          ELSE \E partial \in BOOLEAN, pct \in RunFillPcts :
               LET fill == SimulateFill(signal.direction, size, cur.price,
                              cur.depth, DefaultVolatility, DefaultSpread,
                              partial, pct)
               IN IF fill = NoFill
                  THEN UNCHANGED <<capital, positions, fills>>
                  ELSE /\ capital' = capital - FillCost(fill)
                       /\ positions' = Append(positions,
                            [market_id |-> cur.market_id,
                             direction |-> signal.direction,
                             size |-> fill.filled_size,
                             entry_price |-> fill.avg_price,
                             entry_time |-> cur.timestamp,
                             exit_price |-> NoneVal,
                             exit_time |-> NoneVal])
                       /\ fills' = Append(fills, fill)
    /\ signals' = Tail(signals)
    /\ gen_outs' = <<>>
    /\ UNCHANGED <<pc, cur, gen_input, closed_positions, equity_curve,
                   last_ts, nconsumed, order_violated, nsignals>>
    /\ UNCHANGED <<fvars, pvars, avars, xvars, zvars>>

\* an equity that stays at the initial capital
EquityAtStart(cap) == InitialCapital

\* BacktestState.equity: "For simplicity, just return capital"
Equity(cap) == cap

\* run: "equity_curve.append(...)" after the signals of the tick are executed
RecordEquity ==
    /\ pc = "execute"
    /\ signals = <<>>
    /\ equity_curve' = Append(equity_curve,
                          [timestamp |-> cur.timestamp,
                           equity |-> Equity(capital)])
    /\ pc' = "scan"
    /\ cur' = NoSnapshot
    /\ gen_input' = NoSnapshot
    /\ gen_outs' = <<>>
    /\ UNCHANGED <<signals, capital, positions,
                   closed_positions, fills, last_ts, nconsumed,
                   order_violated, nsignals>>
    /\ UNCHANGED <<fvars, pvars, avars, xvars, zvars>>

\* The simulator is not running (the other components are exercised alone).
BacktestIdle ==
    /\ pc = "idle"
    /\ cur = NoSnapshot
    /\ signals = <<>>
    /\ gen_input = NoSnapshot
    /\ capital = 0
    /\ positions = <<>>
    /\ closed_positions = <<>>
    /\ fills = <<>>
    /\ equity_curve = <<>>
    /\ last_ts = NoneVal
    /\ nconsumed = 0
    /\ order_violated = FALSE
    /\ nsignals = 0
    /\ gen_outs = <<>>

\* ------------------------------------------------------------------------
\* backtest/fills.py: repeated executions of simulate_fill
\* ------------------------------------------------------------------------
MaxRuns == 2                   \* executions of simulate_fill on the same input

FillSizes == {-100, 0, 100, 1500, 2050, 100000}
FillPrices == {500, 50000, 99500}
FillDepths == {-1, 0, 16, 1000}
FillArgs == [side : Directions, size : FillSizes, price : FillPrices,
             depth : FillDepths]
NoArgs == [side |-> "", size |-> 0, price |-> 0, depth |-> 0]

FillInit ==
    /\ f_args \in FillArgs
    /\ f_runs = <<>>

\* One execution.  fills.py draws from the interpreter-wide random module and
\* has no operation that sets its state, so every draw is a free choice.
SimulateFillCall ==
    /\ f_args # NoArgs
    /\ Len(f_runs) < MaxRuns
    /\ \E partial \in BOOLEAN, pct \in FillPcts :
        f_runs' = Append(f_runs,
                    SimulateFill(f_args.side, f_args.size, f_args.price,
                                 f_args.depth, DefaultVolatility,
                                 DefaultSpread, partial, pct))
    /\ UNCHANGED f_args
    /\ UNCHANGED <<bvars, pvars, avars, xvars, zvars>>

FillIdle ==
    /\ f_args = NoArgs
    /\ f_runs = <<>>

\* ------------------------------------------------------------------------
\* strategy/portfolio.py (prices in cents, exposure in cents)
\* ------------------------------------------------------------------------
MaxTotalExposure == 500000     \* PortfolioLimits.max_total_exposure = 5000
MaxPerMarket == 50000          \* PortfolioLimits.max_per_market = 500
MaxPerEvent == 100000          \* PortfolioLimits.max_per_event = 1000
MaxPerLeague == 200000         \* PortfolioLimits.max_per_league = 2000
MinViableSize == 10            \* "if rec.max_size >= 10" in adjust_for_correlation

MaxHeld == 2                   \* positions added to the portfolio
MaxRecs == 2                   \* recommendations in one batch

\* market, event and league of the contracts of the model
Instruments ==
    { [market_id |-> "M1", event_id |-> "E1", league |-> "NFL"],
      [market_id |-> "M2", event_id |-> "E1", league |-> "NFL"],
      [market_id |-> "M3", event_id |-> "E2", league |-> "NFL"],
      [market_id |-> "M4", event_id |-> "E3", league |-> "NBA"] }
RecInstruments == { i \in Instruments : i.market_id \in {"M1", "M4"} }

PortfolioPositions ==
    { [market_id |-> i.market_id, event_id |-> i.event_id, league |-> i.league,
       direction |-> d.direction, size |-> d.size, entry_price |-> 50] :
      i \in Instruments,
      d \in { [direction |-> "YES", size |-> 800],
              [direction |-> "NO", size |-> 800],
              [direction |-> "YES", size |-> 5000] } }

Recommendations ==
    { [market_id |-> i.market_id, event_id |-> i.event_id, league |-> i.league,
       contract |-> "YES", entry_price |-> pr, max_size |-> sz,
       risk_flags |-> <<>>] :
      i \in RecInstruments, pr \in {25, 50}, sz \in {15, 400, 1000, 12000} }

NoRec == [market_id |-> "", event_id |-> "", league |-> "", contract |-> "",
          entry_price |-> 0, max_size |-> 0, risk_flags |-> <<>>]

SeqsUpTo(S, n) == UNION { [1..k -> S] : k \in 0..n }

\* PortfolioPosition.exposure
Exposure(p) == p.size * p.entry_price

RECURSIVE SumExposure(_)
SumExposure(ps) ==
    IF ps = <<>> THEN 0 ELSE Exposure(Head(ps)) + SumExposure(Tail(ps))

\* PortfolioManager.total_exposure
TotalExposure(ps) == SumExposure(ps)

\* the three filtered sums of check_limits and _size_to_fit
MarketExposure(ps, rec) ==
    SumExposure(SelectSeq(ps, LAMBDA p : p.market_id = rec.market_id))
EventExposure(ps, rec) ==
    SumExposure(SelectSeq(ps, LAMBDA p : p.event_id = rec.event_id))
LeagueExposure(ps, rec) ==
    SumExposure(SelectSeq(ps, LAMBDA p : p.league = rec.league))

CheckLimitsGe(ps, rec) ==
    LET proposed == rec.entry_price * rec.max_size
        violations ==
            (IF TotalExposure(ps) + proposed >= MaxTotalExposure
             THEN <<"total_exposure">> ELSE <<>>)
            \o (IF MarketExposure(ps, rec) + proposed >= MaxPerMarket
                THEN <<"market_exposure">> ELSE <<>>)
            \o (IF EventExposure(ps, rec) + proposed >= MaxPerEvent
                THEN <<"event_exposure">> ELSE <<>>)
            \o (IF LeagueExposure(ps, rec) + proposed >= MaxPerLeague
                THEN <<"league_exposure">> ELSE <<>>)
    IN [allowed |-> violations = <<>>, violations |-> violations]

\* PortfolioManager.check_limits
CheckLimits(ps, rec) ==
    LET proposed == rec.entry_price * rec.max_size
        violations ==
            (IF TotalExposure(ps) + proposed > MaxTotalExposure
             THEN <<"total_exposure">> ELSE <<>>)
            \o (IF MarketExposure(ps, rec) + proposed > MaxPerMarket
                THEN <<"market_exposure">> ELSE <<>>)
            \o (IF EventExposure(ps, rec) + proposed > MaxPerEvent
                THEN <<"event_exposure">> ELSE <<>>)
            \o (IF LeagueExposure(ps, rec) + proposed > MaxPerLeague
                THEN <<"league_exposure">> ELSE <<>>)
    IN [allowed |-> violations = <<>>, violations |-> violations]

\* PortfolioManager._size_to_fit
SizeToFit(ps, rec) ==
    LET available_total == MaxTotalExposure - TotalExposure(ps)
        available_event == MaxPerEvent - EventExposure(ps, rec)
        available_league == MaxPerLeague - LeagueExposure(ps, rec)
        available == Min(Min(available_total, available_event),
                         Min(available_league, MaxPerMarket))
    IN IF available <= 0 \/ rec.entry_price <= 0 THEN 0
       ELSE available \div rec.entry_price

\* adjust_for_correlation: the body of the loop for one recommendation,
\* the recommendation as the loop leaves it
AdjustOne(ps, rec) ==
    LET event_positions == SelectSeq(ps, LAMBDA p : p.event_id = rec.event_id)
        same_direction ==
            \E k \in 1..Len(event_positions) :
                event_positions[k].direction = rec.contract
        rec1 == IF event_positions = <<>> THEN rec
                ELSE IF same_direction
                THEN [rec EXCEPT !.max_size = (rec.max_size * 5) \div 10,
                                 !.risk_flags = Append(@, "correlated_position")]
                ELSE [rec EXCEPT
                         !.risk_flags = Append(@, "opposite_position_exists")]
        cl == CheckLimits(ps, rec1)
    IN IF cl.allowed THEN rec1
       ELSE [rec1 EXCEPT !.risk_flags = @ \o cl.violations,
                         !.max_size = SizeToFit(ps, rec1)]

\* adjust_for_correlation: recs as mutated in place, and the returned list
AdjustForCorrelation(ps, recs) ==
    LET after == [k \in 1..Len(recs) |-> AdjustOne(ps, recs[k])]
    IN [after |-> after,
        adjusted |-> SelectSeq(after, LAMBDA r : r.max_size >= MinViableSize)]

NoCheck == [allowed |-> TRUE, violations |-> <<>>]

PortfolioInit ==
    /\ held = <<>>
    /\ cl_rec = NoRec
    /\ cl_result = NoCheck
    /\ pm_recs_in = <<>>
    /\ pm_recs_after = <<>>
    /\ pm_adjusted = <<>>

PortfolioIdle == PortfolioInit

\* The record of the last call is of the portfolio as it is: it is dropped
\* when the portfolio changes, and one call is recorded per portfolio.
ForgetCalls ==
    /\ cl_rec' = NoRec
    /\ cl_result' = NoCheck
    /\ pm_recs_in' = <<>>
    /\ pm_recs_after' = <<>>
    /\ pm_adjusted' = <<>>

\* PortfolioManager.add_position
AddPosition ==
    /\ Len(held) < MaxHeld
    /\ \E p \in PortfolioPositions : held' = Append(held, p)
    /\ ForgetCalls
    /\ UNCHANGED <<bvars, fvars, avars, xvars, zvars>>

\* PortfolioManager.clear
Clear ==
    /\ held # <<>>
    /\ held' = <<>>
    /\ ForgetCalls
    /\ UNCHANGED <<bvars, fvars, avars, xvars, zvars>>

\* a call of check_limits
CheckLimitsCall ==
    /\ cl_rec = NoRec
    /\ \E rec \in Recommendations :
        /\ cl_rec' = rec
        /\ cl_result' = CheckLimits(held, rec)
    /\ UNCHANGED <<held, pm_recs_in, pm_recs_after, pm_adjusted>>
    /\ UNCHANGED <<bvars, fvars, avars, xvars, zvars>>

\* a call of adjust_for_correlation
AdjustCall ==
    /\ pm_recs_in = <<>>
    /\ \E recs \in SeqsUpTo(Recommendations, MaxRecs) :
        /\ recs # <<>>
        /\ pm_recs_in' = recs
        /\ LET r == AdjustForCorrelation(held, recs)
           IN /\ pm_recs_after' = r.after
              /\ pm_adjusted' = r.adjusted
    /\ UNCHANGED <<held, cl_rec, cl_result>>
    /\ UNCHANGED <<bvars, fvars, avars, xvars, zvars>>

\* ------------------------------------------------------------------------
\* strategy/aggregator.py
\* (strength and confidence in percent, weights in tenths, composite and
\* aggregate scores in 1/10000)
\* ------------------------------------------------------------------------
DefaultWeight == 10            \* SignalAggregator.default_weight = 1.0
MaxAggSignals == 4             \* signals given to one aggregate call
MaxCorrSignals == 3            \* signals of a call that varies the features
CorrUnit == 3600               \* an overlap of 1.0
CountUnit == 1000              \* an independent_signal_count of 1.0

SignalDirections == {"YES", "NO", "NEUTRAL"}
\* (strength, confidence) of the signals of the model
SignalScores == { [strength |-> 70, confidence |-> 60],
                  [strength |-> 100, confidence |-> 90] }

\* the signals of one market: the k-th generator's signal is named k
SignalLists ==
    UNION { { [k \in 1..n |-> [name |-> k, direction |-> f[k].direction,
                               strength |-> f[k].score.strength,
                               confidence |-> f[k].score.confidence,
                               features_used |-> {"feat1"}]] :
              f \in [1..n -> [direction : SignalDirections,
                              score : SignalScores]] } :
            n \in 0..MaxAggSignals }

\* Signal.name and Signal.features_used of the calls that vary them
SignalNames == {1, 2, 3}
FeatureSets == { {}, {"f1"}, {"f1", "f2"}, {"f3"} }

\* directional signals with any names and any features
CorrSignals ==
    [name : SignalNames, direction : {"YES", "NO"}, strength : {70},
     confidence : {60}, features_used : FeatureSets]
CorrSignalLists == SeqsUpTo(CorrSignals, MaxCorrSignals)

CorrConfigs ==
    [weights : { {} }, min_signals : {1}, require_agreement : BOOLEAN,
     min_agreement_ratio : {60}]

\* SignalAggregator configurations; weights maps some names to a weight
AggConfigs ==
    [weights : { {}, {<<1, 20>>}, {<<1, 0>>, <<2, 5>>} },
     min_signals : {1, 2},
     require_agreement : BOOLEAN,
     min_agreement_ratio : {50, 60}]

\* Signal.composite_score
CompositeScore(sig) == sig.strength * sig.confidence

\* self.weights.get(signal.name, self.default_weight)
WeightOf(cfg, name) ==
    IF \E e \in cfg.weights : e[1] = name
    THEN (CHOOSE e \in cfg.weights : e[1] = name)[2]
    ELSE DefaultWeight

\* compute_feature_overlap
ComputeFeatureOverlap(signal_a, signal_b) ==
    LET features_a == signal_a.features_used
        features_b == signal_b.features_used
    IN IF features_a = {} \/ features_b = {} THEN 0
       ELSE (Cardinality(features_a \cap features_b) * CorrUnit)
            \div Cardinality(features_a \cup features_b)

\* tuple(sorted([sig_a.name, sig_b.name]))
SortedKey(a, b) == IF a <= b THEN <<a, b>> ELSE <<b, a>>

\* correlations[key] = overlap
DictSet(d, key, value) ==
    { e \in d : e[1] # key } \cup { <<key, value>> }

RECURSIVE PairwiseInner(_, _, _, _)
\* compute_pairwise_correlations: "for sig_b in signals[i + 1:]"
PairwiseInner(sigs, i, j, correlations) ==
    IF j > Len(sigs) THEN correlations
    ELSE PairwiseInner(sigs, i, j + 1,
           DictSet(correlations,
                   SortedKey(sigs[i].name, sigs[j].name),
                   ComputeFeatureOverlap(sigs[i], sigs[j])))

RECURSIVE PairwiseOuter(_, _, _)
\* compute_pairwise_correlations: "for i, sig_a in enumerate(signals)"
PairwiseOuter(sigs, i, correlations) ==
    IF i > Len(sigs) THEN correlations
    ELSE PairwiseOuter(sigs, i + 1,
           PairwiseInner(sigs, i, i + 1, correlations))

\* compute_pairwise_correlations
ComputePairwiseCorrelations(sigs) == PairwiseOuter(sigs, 1, {})

RECURSIVE SumValues(_)
\* sum(correlations.values())
SumValues(d) ==
    IF d = {} THEN 0
    ELSE LET e == CHOOSE x \in d : TRUE IN e[2] + SumValues(d \ {e})

\* aggregate: avg_correlation
AvgCorrelation(correlations) ==
    IF correlations # {}
    THEN SumValues(correlations) \div Cardinality(correlations)
    ELSE 0

\* aggregate: independent_count
IndependentCount(n, avg_correlation) ==
    IF n > 0
    THEN (n * CountUnit * CorrUnit) \div (CorrUnit + (n - 1) * avg_correlation)
    ELSE 0

RECURSIVE Accumulate(_, _, _)
\* aggregate: the loop "for signal in directional"
Accumulate(sigs, cfg, acc) ==
    IF sigs = <<>> THEN acc
    ELSE LET signal == Head(sigs)
             weight == WeightOf(cfg, signal.name)
             weighted_score == CompositeScore(signal) * weight
             used == acc.weights_used \cup {<<signal.name, weight>>}
         IN Accumulate(Tail(sigs), cfg,
              IF signal.direction = "YES"
              THEN [acc EXCEPT !.yes_score = @ + weighted_score,
                               !.yes_weight = @ + weight,
                               !.yes_count = @ + 1,
                               !.weights_used = used]
              ELSE [acc EXCEPT !.no_score = @ + weighted_score,
                               !.no_weight = @ + weight,
                               !.no_count = @ + 1,
                               !.weights_used = used])

\* a direction test that gives ties to YES
ChooseDirectionTieYes(yes_score, no_score) ==
    IF yes_score >= no_score THEN "YES" ELSE "NO"

\* aggregate: "Determine direction"
ChooseDirection(yes_score, no_score) ==
    IF yes_score > no_score THEN "YES"
    ELSE IF no_score > yes_score THEN "NO"
    ELSE "none"

\* an agreement test that divides in integers
AgreementTooLowIntDiv(agreeing_count, n, cfg) ==
    /\ cfg.require_agreement
    /\ (agreeing_count \div n) * 100 < cfg.min_agreement_ratio

\* aggregate: "Enforce agreement requirement"
AgreementTooLow(agreeing_count, n, cfg) ==
    /\ cfg.require_agreement
    /\ agreeing_count * 100 < cfg.min_agreement_ratio * n

NoAgg == [kind |-> "none"]

\* SignalAggregator.aggregate
Aggregate(sigs, cfg) ==
    LET directional == SelectSeq(sigs, LAMBDA x : x.direction # "NEUTRAL")
        acc == Accumulate(directional, cfg,
                 [yes_score |-> 0, no_score |-> 0, yes_weight |-> 0,
                  no_weight |-> 0, yes_count |-> 0, no_count |-> 0,
                  weights_used |-> {}])
        direction == ChooseDirection(acc.yes_score, acc.no_score)
        aggregate_score ==
            IF direction = "YES"
            THEN (IF acc.yes_weight > 0
                  THEN acc.yes_score \div acc.yes_weight ELSE 0)
            ELSE (IF acc.no_weight > 0
                  THEN acc.no_score \div acc.no_weight ELSE 0)
        agreeing_count ==
            IF direction = "YES" THEN acc.yes_count ELSE acc.no_count
        correlations == ComputePairwiseCorrelations(directional)
        avg_correlation == AvgCorrelation(correlations)
    IN IF Len(sigs) < cfg.min_signals THEN NoAgg
       ELSE IF directional = <<>> THEN NoAgg
       ELSE IF Len(directional) < cfg.min_signals THEN NoAgg
       ELSE IF direction = "none" THEN NoAgg
       ELSE IF AgreementTooLow(agreeing_count, Len(directional), cfg)
       THEN NoAgg
       ELSE [kind |-> "agg",
             direction |-> direction,
             aggregate_score |-> aggregate_score,
             agreeing_count |-> agreeing_count,
             contributing_signals |-> directional,
             weights_used |-> acc.weights_used,
             feature_correlations |-> correlations,
             avg_correlation |-> avg_correlation,
             independent_signal_count |->
                 IndependentCount(Len(directional), avg_correlation)]

AggregatorInit ==
    /\ a_signals \in SignalLists
    /\ a_cfg \in AggConfigs
    /\ a_done = FALSE
    /\ a_result = NoAgg

CorrelationInit ==
    /\ a_signals \in CorrSignalLists
    /\ a_cfg \in CorrConfigs
    /\ a_done = FALSE
    /\ a_result = NoAgg

AggregatorIdle ==
    /\ a_signals = <<>>
    /\ a_cfg = [weights |-> {}, min_signals |-> 0,
                require_agreement |-> FALSE, min_agreement_ratio |-> 0]
    /\ a_done = FALSE
    /\ a_result = NoAgg

\* a call of aggregate
AggregateCall ==
    /\ ~a_done
    /\ a_cfg.min_signals > 0
    /\ a_result' = Aggregate(a_signals, a_cfg)
    /\ a_done' = TRUE
    /\ UNCHANGED <<a_signals, a_cfg>>
    /\ UNCHANGED <<bvars, fvars, pvars, xvars, zvars>>

\* ------------------------------------------------------------------------
\* strategy/ranker.py: RecommendationRanker
\* ------------------------------------------------------------------------

PUnit == 10000                 \* a probability or price of 1.0
Missing == -1                  \* a key the market dict does not have
MaxEdge == 1000                \* max_edge = 0.10
WinProbCap == 9500             \* min(0.95, ...)
DefaultSpreadRanker == 200     \* market.get("spread", 0.02)

\* AggregatedSignal.contributing_signals of the calls of the model, by the
\* direction of each signal
ContributingLists ==
    { <<>>, <<"YES">>, <<"YES", "NO">>, <<"YES", "YES", "NO">> }
EvScores == {0, 1200, 6000, 8400}
EvEntryPrices == {100, 5000, 9000, 9900}
EvSpreads == {Missing, 0, 1000}
EvAggs ==
    [direction : {"YES"}, aggregate_score : EvScores,
     contributing_signals : ContributingLists]
EvArgs == [agg : EvAggs, entry_price : EvEntryPrices, spread : EvSpreads]
NoEvCall == [kind |-> "none"]

\* AggregatedSignal.agreement_ratio: the number of agreeing signals
Agreeing(agg) ==
    Cardinality({ i \in 1..Len(agg.contributing_signals) :
                    agg.contributing_signals[i] = agg.direction })

\* AggregatedSignal.signal_count
SignalCount(agg) == Len(agg.contributing_signals)

\* an edge that ignores the agreement ratio
EstimatedEdgeNoAgreement(agg) == (agg.aggregate_score * MaxEdge) \div PUnit

\* _calculate_expected_value: estimated_edge =
\* aggregate_score * max_edge * (0.5 + 0.5 * agreement_ratio)
EstimatedEdge(agg) ==
    LET signal_edge == (agg.aggregate_score * MaxEdge) \div PUnit
        n == SignalCount(agg)
    IN IF n = 0 THEN signal_edge \div 2
       ELSE (signal_edge * (n + Agreeing(agg))) \div (2 * n)

\* _calculate_expected_value: estimated_win_prob
EstimatedWinProb(agg, entry_price) ==
    Min(WinProbCap, entry_price + EstimatedEdge(agg))

\* _calculate_expected_value, in units of 1/PUnit^2
CalculateExpectedValue(agg, entry_price, spread) ==
    LET sp == IF spread = Missing THEN DefaultSpreadRanker ELSE spread
        vig == sp \div 2
        estimated_win_prob == EstimatedWinProb(agg, entry_price)
        win_profit == PUnit - entry_price
        loss_amount == entry_price
        gross_ev == estimated_win_prob * win_profit
                    - (PUnit - estimated_win_prob) * loss_amount
    IN gross_ev - vig * PUnit

EvInit ==
    /\ ev_first = NoEvCall
    /\ ev_second = NoEvCall

EvIdle == EvInit

EvRecord(args) ==
    [kind |-> "call", agg |-> args.agg, entry_price |-> args.entry_price,
     spread |-> args.spread,
     ev |-> CalculateExpectedValue(args.agg, args.entry_price, args.spread)]

\* a call of _calculate_expected_value
EvFirstCall ==
    /\ ev_first = NoEvCall
    /\ \E args \in EvArgs : ev_first' = EvRecord(args)
    /\ UNCHANGED ev_second
    /\ UNCHANGED <<bvars, fvars, pvars, avars, rvars, svars, dvars, zvars>>

\* a later call of _calculate_expected_value
EvSecondCall ==
    /\ ev_first # NoEvCall
    /\ ev_second = NoEvCall
    /\ \E args \in EvArgs : ev_second' = EvRecord(args)
    /\ UNCHANGED ev_first
    /\ UNCHANGED <<bvars, fvars, pvars, avars, rvars, svars, dvars, zvars>>

\* rank_all and the helpers it calls, with scores in units of 1/10^9

MaxAggs == 2                   \* aggregated signals given to one rank_all call
EvWeight == 4                  \* ev_weight = 0.4
ConfidenceWeight == 3          \* confidence_weight = 0.3
LiquidityWeight == 2           \* liquidity_weight = 0.2
TimingWeight == 1              \* timing_weight = 0.1
PctUnit == 1000000             \* one percent, in units of 1/PUnit^2
DefaultAsk == 5000             \* market.get("yes_ask", 0.5)
DefaultLiquidity == 50         \* market.get("liquidity_score", 0.5)
DefaultKickoff == 86400        \* market.get("time_to_kickoff", 86400)
DefaultDepth == 1000           \* market.get("available_depth", 1000)
KickoffScale == 7200           \* 2 hour scale
MinRecSize == 10               \* max(10, size)
LowLiquidity == 30             \* liquidity_score < 0.3
WideSpread == 500              \* spread > 0.05
LowAgreementTenths == 7        \* agreement_ratio < 0.7
NearResolution == 1800         \* time_left < 1800
DefaultResolution == 86400     \* market.get("time_to_resolution", 86400)

RankMarkets == {"M1", "M2", "M3"}

\* the dict market_data holds for a market: a full one and an empty one
FullMarket ==
    [yes_ask |-> 6000, no_ask |-> 4200, spread |-> 1000, event_id |-> "E1",
     league |-> "NFL", matchup |-> "A vs B", title |-> "T",
     liquidity_score |-> 20, time_to_kickoff |-> 3600,
     available_depth |-> 50, time_to_resolution |-> 900]
EmptyMarket ==
    [yes_ask |-> Missing, no_ask |-> Missing, spread |-> Missing,
     event_id |-> "", league |-> "", matchup |-> "", title |-> "",
     liquidity_score |-> Missing, time_to_kickoff |-> Missing,
     available_depth |-> Missing, time_to_resolution |-> Missing]
\* the dict of a market whose snapshot has no kickoff and resolution time:
\* the keys are present with the value None
NoneKey == -2
UntimedMarket ==
    [FullMarket EXCEPT !.time_to_kickoff = NoneKey,
                       !.time_to_resolution = NoneKey]
MarketDicts == {FullMarket, EmptyMarket, UntimedMarket}
MarketData ==
    { md \in [RankMarkets -> MarketDicts] :
        /\ md["M1"] # UntimedMarket
        /\ md["M3"] = EmptyMarket }

\* aggregated signals, one per market as aggregate_batch returns them
RankAggs ==
    [market_id : RankMarkets, direction : {"YES", "NO"},
     aggregate_score : {1200, 8400}, confidence : {10, 30},
     contributing_signals : { <<"YES">>, <<"YES", "NO">> }]
RankAggLists ==
    { l \in SeqsUpTo(RankAggs, MaxAggs) :
        \A i, j \in 1..Len(l) : i # j => l[i].market_id # l[j].market_id }

RankerConfigs ==
    [min_ev : {2000000}, min_confidence : {30},
     max_recommendations : {1, 10}]

\* market.get(key, default)
GetOr(value, default) == IF value = Missing THEN default ELSE value

\* _calculate_max_size
CalculateMaxSize(agg, market) ==
    LET base_size == agg.confidence
        liquidity == GetOr(market.liquidity_score, DefaultLiquidity)
        size == (base_size * liquidity) \div 100
        depth == GetOr(market.available_depth, DefaultDepth)
    IN Max(MinRecSize, Min(size, depth \div 10))

\* _identify_risks
IdentifyRisks(agg, market) ==
    (IF GetOr(market.liquidity_score, 100) < LowLiquidity
     THEN <<"low_liquidity">> ELSE <<>>)
    \o (IF GetOr(market.spread, 0) > WideSpread
        THEN <<"wide_spread">> ELSE <<>>)
    \o (IF SignalCount(agg) = 1 THEN <<"single_signal">> ELSE <<>>)
    \o (IF Agreeing(agg) * 10 < LowAgreementTenths * SignalCount(agg)
           \/ SignalCount(agg) = 0
        THEN <<"signal_disagreement">> ELSE <<>>)
    \o (IF GetOr(market.time_to_resolution, DefaultResolution) < NearResolution
        THEN <<"near_resolution">> ELSE <<>>)

\* _calculate_rank_score
CalculateRankScore(rec, market) ==
    LET ev_score == Min(PUnit * PUnit, rec.expected_value * 10)
        conf_score == rec.confidence
        liquidity == GetOr(market.liquidity_score, DefaultLiquidity)
        time_to_kickoff == GetOr(market.time_to_kickoff, DefaultKickoff)
        timing_score ==
            Max(0, 100 - (time_to_kickoff * 100) \div KickoffScale)
    IN EvWeight * ev_score
       + ConfidenceWeight * conf_score * PctUnit
       + LiquidityWeight * liquidity * PctUnit
       + TimingWeight * timing_score * PctUnit

\* rank_all: entry price of the aggregated signal's side
EntryPrice(agg, market) ==
    IF agg.direction = "YES" THEN GetOr(market.yes_ask, DefaultAsk)
    ELSE GetOr(market.no_ask, DefaultAsk)

\* rejection reasons that leave the confidence out
RejectionReasonsEvOnly(ev, agg, cfg) ==
    IF ev < cfg.min_ev THEN <<"EV below threshold">> ELSE <<>>

\* rank_all: rejection_reasons
RejectionReasons(ev, agg, cfg) ==
    (IF ev < cfg.min_ev THEN <<"EV below threshold">> ELSE <<>>)
    \o (IF agg.confidence < cfg.min_confidence
        THEN <<"Confidence below threshold">> ELSE <<>>)

\* rank_all: temp_rec with its rank score
TempRec(agg, market) ==
    LET entry_price == EntryPrice(agg, market)
        ev == CalculateExpectedValue(agg, entry_price, market.spread)
        rec == [market_id |-> agg.market_id,
                event_id |-> market.event_id,
                contract |-> agg.direction,
                entry_price |-> entry_price,
                max_size |-> CalculateMaxSize(agg, market),
                expected_value |-> ev,
                time_to_resolution |-> market.time_to_resolution,
                contributing_signals |-> agg.contributing_signals,
                risk_flags |-> IdentifyRisks(agg, market),
                league |-> market.league,
                matchup |-> market.matchup,
                market_title |-> market.title,
                confidence |-> agg.confidence]
    IN [r \in {"rank_score"} \cup DOMAIN rec |->
          IF r = "rank_score" THEN CalculateRankScore(rec, market)
          ELSE rec[r]]

\* rank_all: CandidateOpportunity(...)
Candidate(agg, market, cfg) ==
    LET t == TempRec(agg, market)
    IN [market_id |-> agg.market_id,
        event_id |-> market.event_id,
        direction |-> agg.direction,
        entry_price |-> t.entry_price,
        expected_value |-> t.expected_value,
        confidence |-> agg.confidence,
        signals |-> agg.contributing_signals,
        rejection_reasons |-> RejectionReasons(t.expected_value, agg, cfg),
        rank_score |-> t.rank_score,
        league |-> market.league,
        matchup |-> market.matchup,
        market_title |-> market.title,
        ev_threshold |-> cfg.min_ev,
        confidence_threshold |-> cfg.min_confidence]

RECURSIVE InsertByRank(_, _)
\* list.sort(key=lambda r: -r.rank_score): a stable sort, one insertion
InsertByRank(sorted, x) ==
    IF sorted = <<>> THEN <<x>>
    ELSE IF Head(sorted).rank_score >= x.rank_score
         THEN <<Head(sorted)>> \o InsertByRank(Tail(sorted), x)
         ELSE <<x>> \o sorted

RECURSIVE SortByRank(_, _)
\* list.sort(key=lambda r: -r.rank_score)
SortByRank(list, sorted) ==
    IF list = <<>> THEN sorted
    ELSE SortByRank(Tail(list), InsertByRank(sorted, Head(list)))

RECURSIVE RankAllLoop(_, _, _, _, _)
\* rank_all: "for agg in aggregated_signals"
RankAllLoop(aggs, market_data, cfg, recommendations, watchlist) ==
    IF aggs = <<>>
    THEN [recommendations |-> recommendations, watchlist |-> watchlist]
    ELSE LET agg == Head(aggs)
             market == market_data[agg.market_id]
             t == TempRec(agg, market)
         IN IF RejectionReasons(t.expected_value, agg, cfg) = <<>>
            THEN RankAllLoop(Tail(aggs), market_data, cfg,
                             Append(recommendations, t), watchlist)
            ELSE RankAllLoop(Tail(aggs), market_data, cfg, recommendations,
                             Append(watchlist, Candidate(agg, market, cfg)))

\* recommendations[: self.max_recommendations]
Truncate(list, n) == SubSeq(list, 1, Min(n, Len(list)))

\* RecommendationRanker.rank_all
RankAll(aggs, market_data, cfg) ==
    LET r == RankAllLoop(aggs, market_data, cfg, <<>>, <<>>)
    IN [recommendations |->
            Truncate(SortByRank(r.recommendations, <<>>),
                     cfg.max_recommendations),
        watchlist |-> SortByRank(r.watchlist, <<>>)]

\* "time_left < 1800" in _identify_risks and "time_to_kickoff / 7200" in
\* _calculate_rank_score raise TypeError on None
RaisesTypeError(market) ==
    market.time_to_resolution = NoneKey \/ market.time_to_kickoff = NoneKey

\* rank_all builds temp_rec and its rank score for every aggregated signal
RankAllRaises(aggs, market_data) ==
    \E i \in 1..Len(aggs) : RaisesTypeError(market_data[aggs[i].market_id])

\* rank: the two "continue" tests come before the Recommendation is built
Skipped(agg, market, cfg) ==
    \/ CalculateExpectedValue(agg, EntryPrice(agg, market), market.spread)
          < cfg.min_ev
    \/ agg.confidence < cfg.min_confidence

RankRaises(aggs, market_data, cfg) ==
    \E i \in 1..Len(aggs) :
        /\ ~Skipped(aggs[i], market_data[aggs[i].market_id], cfg)
        /\ RaisesTypeError(market_data[aggs[i].market_id])

RECURSIVE RankLoop(_, _, _, _)
\* rank: "for agg in aggregated_signals"
RankLoop(aggs, market_data, cfg, recommendations) ==
    IF aggs = <<>> THEN recommendations
    ELSE LET agg == Head(aggs)
             market == market_data[agg.market_id]
         IN IF Skipped(agg, market, cfg)
            THEN RankLoop(Tail(aggs), market_data, cfg, recommendations)
            ELSE RankLoop(Tail(aggs), market_data, cfg,
                          Append(recommendations, TempRec(agg, market)))

\* RecommendationRanker.rank
Rank(aggs, market_data, cfg) ==
    Truncate(SortByRank(RankLoop(aggs, market_data, cfg, <<>>), <<>>),
             cfg.max_recommendations)

NoRanking == [recommendations |-> <<>>, watchlist |-> <<>>]
NoRank == [kind |-> "none", recommendations |-> <<>>]

RankerInit ==
    /\ rk_aggs \in RankAggLists
    /\ rk_market_data \in MarketData
    /\ rk_cfg \in RankerConfigs
    /\ rk_done = FALSE
    /\ rk_result = NoRanking
    /\ rk_raised = FALSE
    /\ rk_ranked = NoRank

RankerIdle ==
    /\ rk_aggs = <<>>
    /\ rk_market_data = [mk \in RankMarkets |-> EmptyMarket]
    /\ rk_cfg = [min_ev |-> 0, min_confidence |-> 0,
                 max_recommendations |-> 0]
    /\ rk_done = FALSE
    /\ rk_result = NoRanking
    /\ rk_raised = FALSE
    /\ rk_ranked = NoRank

\* a call of rank_all
RankAllCall ==
    /\ ~rk_done /\ ~rk_raised
    /\ rk_cfg.max_recommendations > 0
    /\ IF RankAllRaises(rk_aggs, rk_market_data)
       THEN /\ rk_raised' = TRUE
            /\ UNCHANGED <<rk_done, rk_result>>
       ELSE /\ rk_result' = RankAll(rk_aggs, rk_market_data, rk_cfg)
            /\ rk_done' = TRUE
            /\ UNCHANGED rk_raised
    /\ UNCHANGED <<rk_aggs, rk_market_data, rk_cfg, rk_ranked>>
    /\ UNCHANGED <<bvars, fvars, pvars, avars, evars, svars, dvars, zvars>>

\* a call of rank
RankCall ==
    /\ rk_ranked = NoRank
    /\ rk_cfg.max_recommendations > 0
    /\ rk_ranked' =
          IF RankRaises(rk_aggs, rk_market_data, rk_cfg)
          THEN [kind |-> "raised", recommendations |-> <<>>]
          ELSE [kind |-> "returned",
                recommendations |-> Rank(rk_aggs, rk_market_data, rk_cfg)]
    /\ UNCHANGED <<rk_aggs, rk_market_data, rk_cfg, rk_done, rk_result,
                   rk_raised>>
    /\ UNCHANGED <<bvars, fvars, pvars, avars, evars, svars, dvars, zvars>>

\* ------------------------------------------------------------------------
\* strategy/sizing.py: PositionSizer, probabilities in percent and sizes
\* in cents
\* ------------------------------------------------------------------------

Cent == 100                    \* one dollar, in cents
Pct == 100                     \* a probability, price or score of 1.0
BaseSize == 100                \* SizingParams.base_size
MaxSize == 500                 \* SizingParams.max_size
MinSize == 10                  \* SizingParams.min_size
KellyFraction == 25            \* SizingParams.kelly_fraction = 0.25
SizerWinProbFloor == 5         \* max(0.05, ...)
SizerWinProbCap == 95          \* min(0.95, ...)

KellyProbs == {-10, 0, 30, 45, 50, 55, 95, 100, 120}
Bankrolls == {Missing, 5000}
Confidences == {0, 10, 50, 100}
SizerEntryPrices == {0, 30, 50, 95, 100}
LiquidityScores == {0, 50, 100}
ResolutionTimes == {Missing, 900, 2700, 5400, 7200}
AvailableDepths == {Missing, 0, 50, 2000, 100000}
KellyArgs ==
    [win_prob : KellyProbs, entry_price : KellyProbs, bankroll : Bankrolls]
CalculateArgs ==
    [signal_confidence : Confidences, entry_price : SizerEntryPrices,
     liquidity_score : LiquidityScores,
     time_to_resolution : ResolutionTimes,
     available_depth : AvailableDepths, bankroll : Bankrolls]
NoSizerCall == [kind |-> "none"]

\* a Kelly size that skips the test of the edge
KellySizeNoEdgeTest(win_prob, entry_price, bankroll) ==
    LET bank == IF bankroll = Missing THEN BaseSize * 10 ELSE bankroll
        num == (Pct - entry_price) * win_prob - (Pct - win_prob) * entry_price
        den == Pct * (Pct - entry_price)
    IN IF win_prob <= 0 \/ win_prob >= Pct THEN 0
       ELSE IF entry_price <= 0 \/ entry_price >= Pct THEN 0
       ELSE IF num < 0 THEN (bank * KellyFraction * (0 - num)) \div den
       ELSE (bank * KellyFraction * num) \div den

\* PositionSizer._kelly_size, in cents; the Kelly fraction (b*p - q) / b
\* with b = (1 - entry_price) / entry_price is the ratio num / den
KellySize(win_prob, entry_price, bankroll) ==
    LET bank == IF bankroll = Missing THEN BaseSize * 10 ELSE bankroll
        num == (Pct - entry_price) * win_prob - (Pct - win_prob) * entry_price
        den == Pct * (Pct - entry_price)
    IN IF win_prob <= 0 \/ win_prob >= Pct THEN 0
       ELSE IF entry_price <= 0 \/ entry_price >= Pct THEN 0
       ELSE IF num <= 0 THEN 0
       ELSE Max(0, (bank * KellyFraction * num) \div den)

\* PositionSizer._time_adjustment, in percent
TimeAdjustment(seconds) ==
    IF seconds * 2 < 3600 THEN 50
    ELSE IF seconds < 3600 THEN 70
    ELSE IF seconds < 2 * 3600 THEN 85
    ELSE 100

\* bounds without the depth constraint
ApplyBoundsOnly(size, available_depth) ==
    Max(MinSize * Cent, Min(MaxSize * Cent, size))

\* a depth constraint applied after the bounds
ApplyDepthAndBoundsDepthLast(size, available_depth) ==
    LET bounded == Max(MinSize * Cent, Min(MaxSize * Cent, size))
    IN IF available_depth # Missing
       THEN Min(bounded, available_depth * 10)
       ELSE bounded

\* calculate: "Depth constraint" and "Apply bounds", in cents
ApplyDepthAndBounds(size, available_depth) ==
    LET capped == IF available_depth # Missing
                  THEN Min(size, available_depth * 10)
                  ELSE size
    IN Max(MinSize * Cent, Min(MaxSize * Cent, capped))

\* PositionSizer.calculate, in dollars
Calculate(signal_confidence, entry_price, liquidity_score, time_to_resolution, available_depth, bankroll) ==
    LET estimated_win_prob ==
            Min(SizerWinProbCap,
                Max(SizerWinProbFloor,
                    entry_price + signal_confidence \div 10))
        kelly == KellySize(estimated_win_prob, entry_price, bankroll)
        size == IF kelly <= 0 THEN MinSize * signal_confidence ELSE kelly
        liquid == (size * liquidity_score) \div Pct
        timed == IF time_to_resolution # Missing
                 THEN (liquid * TimeAdjustment(time_to_resolution)) \div Pct
                 ELSE liquid
    IN ApplyDepthAndBounds(timed, available_depth) \div Cent

SizerInit ==
    /\ sz_kelly = NoSizerCall
    /\ sz_calc = NoSizerCall

SizerIdle == SizerInit

\* a call of _kelly_size
KellySizeCall ==
    /\ sz_kelly = NoSizerCall
    /\ \E a \in KellyArgs :
          sz_kelly' = [kind |-> "call", args |-> a,
                       size |-> KellySize(a.win_prob, a.entry_price,
                                          a.bankroll)]
    /\ UNCHANGED sz_calc
    /\ UNCHANGED <<bvars, fvars, pvars, avars, evars, rvars, dvars, zvars>>

\* a call of calculate
CalculateCall ==
    /\ sz_calc = NoSizerCall
    /\ \E a \in CalculateArgs :
          sz_calc' = [kind |-> "call", args |-> a,
                      size |-> Calculate(a.signal_confidence, a.entry_price,
                                         a.liquidity_score,
                                         a.time_to_resolution,
                                         a.available_depth, a.bankroll)]
    /\ UNCHANGED sz_kelly
    /\ UNCHANGED <<bvars, fvars, pvars, avars, evars, rvars, dvars, zvars>>

\* ------------------------------------------------------------------------
\* backtest/metrics.py: calculate_drawdown, drawdowns in units of 1/DdUnit
\* ------------------------------------------------------------------------

DdUnit == 10000                \* a drawdown of 1.0
MaxEquities == 4               \* length of the equity sequences tried in full
EquityValues == {90, 100, 105, 110, 115, 120}
TestEquities == <<100, 110, 105, 120, 90, 100, 115>>
DrawdownInputs == SeqsUpTo(EquityValues, MaxEquities) \cup {TestEquities}

RECURSIVE DrawdownLoopFixedPeak(_, _)
\* a loop that never moves the peak
DrawdownLoopFixedPeak(equities, st) ==
    IF equities = <<>> THEN st
    ELSE LET equity == Head(equities)
             dd == ((st.peak - equity) * DdUnit) \div st.peak
         IN DrawdownLoopFixedPeak(Tail(equities),
              [st EXCEPT !.max_dd = Max(@, dd),
                         !.current_duration = @ + 1,
                         !.max_duration = Max(@, st.current_duration + 1)])

RECURSIVE DrawdownLoop(_, _)
\* calculate_drawdown: "for equity in equities"
DrawdownLoop(equities, st) ==
    IF equities = <<>> THEN st
    ELSE LET equity == Head(equities)
         IN IF equity > st.peak
            THEN DrawdownLoop(Tail(equities),
                   [st EXCEPT !.peak = equity, !.current_duration = 0])
            ELSE LET dd == ((st.peak - equity) * DdUnit) \div st.peak
                 IN DrawdownLoop(Tail(equities),
                      [st EXCEPT !.max_dd = Max(@, dd),
                                 !.current_duration = @ + 1,
                                 !.max_duration =
                                     Max(@, st.current_duration + 1)])

\* calculate_drawdown
CalculateDrawdown(equities) ==
    IF equities = <<>> THEN [max_dd |-> 0, max_duration |-> 0]
    ELSE LET st == DrawdownLoop(equities,
                     [peak |-> equities[1], max_dd |-> 0,
                      max_duration |-> 0, current_duration |-> 0])
         IN [max_dd |-> st.max_dd, max_duration |-> st.max_duration]

DrawdownInit ==
    /\ dd_equities \in DrawdownInputs
    /\ dd_done = FALSE
    /\ dd_result = [max_dd |-> 0, max_duration |-> 0]

DrawdownIdle ==
    /\ dd_equities = <<>>
    /\ dd_done = TRUE
    /\ dd_result = [max_dd |-> 0, max_duration |-> 0]

\* a call of calculate_drawdown
CalculateDrawdownCall ==
    /\ ~dd_done
    /\ dd_result' = CalculateDrawdown(dd_equities)
    /\ dd_done' = TRUE
    /\ UNCHANGED dd_equities
    /\ UNCHANGED <<bvars, fvars, pvars, avars, evars, rvars, svars, zvars>>

\* ------------------------------------------------------------------------
\* backtest/scenarios.py: ScenarioRunner
\* ------------------------------------------------------------------------
MaxScenarioRuns == 2           \* run_scenario calls on one runner
PartialFillProb == 10          \* FillModel.partial_fill_prob = 0.1, percent
MinFillPct == 50               \* FillModel.min_fill_pct = 0.5, percent
DrawsPerRun == 4               \* random values one scenario of the model draws

\* random.random() in percent: below and above partial_fill_prob
RandomValues == {4, 50}
RandomStreams == [1..(MaxScenarioRuns * DrawsPerRun) -> RandomValues]

\* Scenario: name, date range and initial capital
Scenarios ==
    { [name |-> "early", start_date |-> 1, end_date |-> 1,
       initial_capital |-> 400 * ONE],
      [name |-> "whole", start_date |-> 1, end_date |-> 2,
       initial_capital |-> 400 * ONE] }

\* what the data_loader yields: the recorded snapshots, in stream order
HistoricalData ==
    << [timestamp |-> 0, market_id |-> "M1", price |-> 50000, depth |-> 16,
        settled_markets |-> [m \in Markets |-> "none"], keys |-> {"volume"}],
       [timestamp |-> 1, market_id |-> "M1", price |-> 50000, depth |-> 16,
        settled_markets |-> [m \in Markets |-> "none"], keys |-> {"volume"}],
       [timestamp |-> 2, market_id |-> "M2", price |-> 50000, depth |-> 16,
        settled_markets |->
            [m \in Markets |-> IF m = "M1" THEN "YES" ELSE "none"],
        keys |-> {"volume", "result"}],
       [timestamp |-> 3, market_id |-> "M2", price |-> 50000, depth |-> 16,
        settled_markets |-> [m \in Markets |-> "none"], keys |-> {"volume"}] >>

DataLoader(start_date, end_date) == HistoricalData

\* the signal_generators given to every scenario: one stateless generator
ScenarioGenerate(snap) ==
    << [kind |-> "signal",
        direction |-> IF snap.market_id = "M1" THEN "YES" ELSE "NO",
        max_size |-> 15] >>

\* simulate_fill drawing from the random module in state pos: the fill and
\* the state the module is left in
DrawnFill(side, size, price, depth, stream, pos) ==
    LET drawing == size > 0 /\ depth > 0 /\ ~(size > depth * SizeUnit)
        partial == drawing /\ stream[pos + 1] < PartialFillProb
        pct == IF partial
               THEN MinFillPct + ((100 - MinFillPct) * stream[pos + 2]) \div 100
               ELSE 100
    IN [fill |-> SimulateFill(side, size, price, depth, DefaultVolatility,
                              DefaultSpread, partial, pct),
        pos |-> IF ~drawing THEN pos ELSE IF partial THEN pos + 2 ELSE pos + 1]

RECURSIVE ExecuteLoop(_, _, _, _)
\* run: "for signal in signals: self._execute_signal(signal, snapshot)"
ExecuteLoop(sigs, snap, stream, st) ==
    IF sigs = <<>> THEN st
    ELSE LET signal == Head(sigs)
             size == RequestedSize(signal, st.capital)
         IN IF size < MinExecSize * SizeUnit
            THEN ExecuteLoop(Tail(sigs), snap, stream, st)
            ELSE LET d == DrawnFill(signal.direction, size, snap.price,
                                    snap.depth, stream, st.pos)
                 IN IF d.fill = NoFill
                    THEN ExecuteLoop(Tail(sigs), snap, stream,
                                     [st EXCEPT !.pos = d.pos])
                    ELSE ExecuteLoop(Tail(sigs), snap, stream,
                           [st EXCEPT
                              !.pos = d.pos,
                              !.capital = @ - FillCost(d.fill),
                              !.positions = Append(@,
                                 [market_id |-> snap.market_id,
                                  direction |-> signal.direction,
                                  size |-> d.fill.filled_size,
                                  entry_price |-> d.fill.avg_price,
                                  entry_time |-> snap.timestamp,
                                  exit_price |-> NoneVal,
                                  exit_time |-> NoneVal]),
                              !.fills = Append(@, d.fill)])

RECURSIVE RunLoop(_, _, _, _)
\* BacktestSimulator.run: "for snapshot in historical_data"
RunLoop(data, scenario, stream, st) ==
    IF data = <<>> THEN st
    ELSE LET snap == Head(data) IN
         IF snap.timestamp < scenario.start_date
         THEN RunLoop(Tail(data), scenario, stream, st)
         ELSE IF snap.timestamp > scenario.end_date THEN st
         ELSE LET settled == SettleLoop(st.positions, snap,
                                [capital |-> st.capital,
                                 positions |-> st.positions,
                                 closed_positions |-> st.closed_positions])
                  traded == ExecuteLoop(Collect(ScenarioGenerate(snap)), snap,
                                stream,
                                [st EXCEPT
                                   !.capital = settled.capital,
                                   !.positions = settled.positions,
                                   !.closed_positions =
                                       settled.closed_positions])
              IN RunLoop(Tail(data), scenario, stream,
                   [traded EXCEPT !.equity_curve = Append(@,
                       [timestamp |-> snap.timestamp,
                        equity |-> Equity(traded.capital)])])

\* run_scenario with the random module in state pos: a new BacktestSimulator
\* runs over the loaded data
RunScenario(scenario, stream, pos) ==
    RunLoop(DataLoader(scenario.start_date, scenario.end_date), scenario,
            stream,
            [capital |-> scenario.initial_capital, positions |-> <<>>,
             closed_positions |-> <<>>, fills |-> <<>>,
             equity_curve |-> <<>>, pos |-> pos])

\* a runner in a process whose random module was seeded
ScenarioInit ==
    /\ sc_stream \in RandomStreams
    /\ sc_pos = 0
    /\ sc_results = <<>>

ScenarioIdle ==
    /\ sc_stream = <<>>
    /\ sc_pos = 0
    /\ sc_results = <<>>

\* a call of run_scenario
RunScenarioCall ==
    /\ sc_stream # <<>>
    /\ Len(sc_results) < MaxScenarioRuns
    /\ \E scenario \in Scenarios :
        LET st == RunScenario(scenario, sc_stream, sc_pos)
        IN /\ sc_pos' = st.pos
           /\ sc_results' = Append(sc_results,
                 [scenario |-> scenario,
                  fills |-> st.fills,
                  closed_positions |-> st.closed_positions,
                  equity_curve |-> st.equity_curve])
    /\ UNCHANGED sc_stream
    /\ UNCHANGED <<bvars, fvars, pvars, avars, xvars, tvars, exvars>>

\* ------------------------------------------------------------------------
\* ingestion/trade_history.py: TradeHistoryStore
\* ------------------------------------------------------------------------
MaxAddCalls == 2               \* add_trades calls on one store
DefaultMaxTrades == 5000       \* TradeHistoryConfig.max_trades_per_market

Tickers == {"TEST", "OTHER"}
TradeIds == {"t1", "t2", "t3"}
Trades == [trade_id : TradeIds, timestamp : {1, 2}]
TradeBatches == SeqsUpTo(Trades, 2)
StoreConfigs == {3, DefaultMaxTrades}

\* MarketTradeHistory(ticker=ticker) and a ticker that is not a key
NewHistory == [present |-> TRUE, trades |-> <<>>, last_updated |-> NoneVal]
NoHistory == [present |-> FALSE, trades |-> <<>>, last_updated |-> NoneVal]

\* {t.trade_id for t in history.trades}
ExistingIds(trades) == { trades[i].trade_id : i \in 1..Len(trades) }

\* [t for t in trades if t.trade_id not in existing_ids]
NewTrades(trades, existing_ids) ==
    SelectSeq(trades, LAMBDA t : t.trade_id \notin existing_ids)

\* sorted(..., key=lambda t: t.timestamp, reverse=True): stable
RECURSIVE InsertNewestFirst(_, _)
InsertNewestFirst(t, sorted) ==
    IF sorted = <<>> THEN <<t>>
    ELSE IF Head(sorted).timestamp >= t.timestamp
         THEN <<Head(sorted)>> \o InsertNewestFirst(t, Tail(sorted))
         ELSE <<t>> \o sorted

RECURSIVE SortNewestFirst(_)
SortNewestFirst(trades) ==
    IF trades = <<>> THEN <<>>
    ELSE InsertNewestFirst(trades[Len(trades)],
                           SortNewestFirst(SubSeq(trades, 1, Len(trades) - 1)))

\* "Trim to max size (keep most recent)"
Trim(trades, max_trades) ==
    IF Len(trades) > max_trades
    THEN SubSeq(SortNewestFirst(trades), 1, max_trades)
    ELSE trades

StoreInit ==
    /\ th_cfg \in StoreConfigs
    /\ th_history = [k \in Tickers |-> NoHistory]
    /\ th_calls = 0

StoreIdle ==
    /\ th_cfg = 0
    /\ th_history = [k \in Tickers |-> NoHistory]
    /\ th_calls = 0

\* TradeHistoryStore.add_trades
AddTrades ==
    /\ th_cfg # 0
    /\ th_calls < MaxAddCalls
    /\ \E ticker \in Tickers, trades \in TradeBatches :
        LET history == IF th_history[ticker].present
                       THEN th_history[ticker] ELSE NewHistory
            new_trades == NewTrades(trades, ExistingIds(history.trades))
        IN th_history' = [th_history EXCEPT ![ticker] =
               [present |-> TRUE,
                trades |-> Trim(history.trades \o new_trades, th_cfg),
                last_updated |-> th_calls + 1]]
    /\ th_calls' = th_calls + 1
    /\ UNCHANGED th_cfg
    /\ UNCHANGED <<bvars, fvars, pvars, avars, xvars, scvars, exvars>>

\* TradeHistoryStore.clear
ClearHistory ==
    /\ th_cfg # 0
    /\ \E ticker \in Tickers \cup {""} :
        /\ \E k \in Tickers : th_history[k].present
        /\ th_history' = [k \in Tickers |->
               IF ticker = "" \/ k = ticker THEN NoHistory
               ELSE th_history[k]]
    /\ UNCHANGED <<th_cfg, th_calls>>
    /\ UNCHANGED <<bvars, fvars, pvars, avars, xvars, scvars, exvars>>

\* ------------------------------------------------------------------------
\* backtest/simulator.py: _execute_signal under any configuration
\* ------------------------------------------------------------------------
MaxExecSteps == 2              \* _execute_signal calls on one state

ExecConfigs == [max_position_pct : {0, 5, 100}, include_fees : BOOLEAN,
                fee_per_contract : {0, FeePerContract}]
NoConfig == [max_position_pct |-> 0, include_fees |-> FALSE,
             fee_per_contract |-> NoneVal]
ExecCapitals == {0, 1, 5 * ONE, 10 * ONE, 150 * ONE}
ExecSignals == [kind : {"signal"}, direction : Directions,
                max_size : {5, 15, 1000}]
ExecSnapshots == [price : FillPrices, depth : {0, 16, 1000}]

\* _execute_signal: the capital it leaves and the fill it made
ExecuteSignalAt(cfg, cap, signal, snap, partial, pct) ==
    LET size == RequestedSizeAt(signal, cap, cfg.max_position_pct)
        fill == SimulateFill(signal.direction, size, snap.price, snap.depth,
                             DefaultVolatility, DefaultSpread, partial, pct)
    IN IF size < MinExecSize * SizeUnit \/ fill = NoFill
       THEN [capital |-> cap, fill |-> NoFill]
       ELSE [capital |-> cap - FillCostAt(fill, cfg.include_fees,
                                          cfg.fee_per_contract),
             fill |-> fill]

ExecInit ==
    /\ ex_cfg \in ExecConfigs
    /\ ex_capital \in ExecCapitals
    /\ ex_fills = <<>>

ExecIdle ==
    /\ ex_cfg = NoConfig
    /\ ex_capital = 0
    /\ ex_fills = <<>>

\* a call of _execute_signal
ExecuteSignalCall ==
    /\ ex_cfg # NoConfig
    /\ Len(ex_fills) < MaxExecSteps
    /\ \E signal \in ExecSignals, snap \in ExecSnapshots,
          partial \in BOOLEAN, pct \in FillPcts :
        LET r == ExecuteSignalAt(ex_cfg, ex_capital, signal, snap, partial, pct)
        IN /\ ex_capital' = r.capital
           /\ ex_fills' = IF r.fill = NoFill THEN ex_fills
                          ELSE Append(ex_fills, r.fill)
    /\ UNCHANGED ex_cfg
    /\ UNCHANGED <<bvars, fvars, pvars, avars, xvars, scvars, tvars>>

OtherIdle == ScenarioIdle /\ StoreIdle /\ ExecIdle

CalcIdle == EvIdle /\ RankerIdle /\ SizerIdle /\ DrawdownIdle /\ OtherIdle

vars == <<bvars, fvars, pvars, avars, xvars, zvars>>

Init == BacktestInit /\ FillIdle /\ PortfolioIdle /\ AggregatorIdle /\ CalcIdle

Next ==
    \/ NextSnapshot
    \/ StreamEnd
    \/ CheckSettlements
    \/ GenerateSignals
    \/ ExecuteSignal
    \/ RecordEquity

\* the backtest run
Spec == Init /\ [][Next]_vars

\* repeated executions of simulate_fill
FillSpecInit ==
    BacktestIdle /\ FillInit /\ PortfolioIdle /\ AggregatorIdle /\ CalcIdle
FillNext == SimulateFillCall
SpecFill == FillSpecInit /\ [][FillNext]_vars

\* a portfolio and calls of check_limits
LimitsInit ==
    BacktestIdle /\ FillIdle /\ PortfolioInit /\ AggregatorIdle /\ CalcIdle
LimitsNext ==
    \/ AddPosition
    \/ Clear
    \/ CheckLimitsCall
SpecLimits == LimitsInit /\ [][LimitsNext]_vars

\* a portfolio and calls of adjust_for_correlation
PortfolioSpecInit ==
    BacktestIdle /\ FillIdle /\ PortfolioInit /\ AggregatorIdle /\ CalcIdle
PortfolioNext ==
    \/ AddPosition
    \/ Clear
    \/ AdjustCall
SpecPortfolio == PortfolioSpecInit /\ [][PortfolioNext]_vars

\* signal lists and calls of aggregate
AggregatorSpecInit ==
    BacktestIdle /\ FillIdle /\ PortfolioIdle /\ AggregatorInit /\ CalcIdle
AggregatorNext == AggregateCall
SpecAggregator == AggregatorSpecInit /\ [][AggregatorNext]_vars

\* aggregate called with signals of any names and features
CorrelationSpecInit ==
    BacktestIdle /\ FillIdle /\ PortfolioIdle /\ CorrelationInit /\ CalcIdle
CorrelationNext == AggregateCall
SpecCorrelation == CorrelationSpecInit /\ [][CorrelationNext]_vars

\* calls of RecommendationRanker._calculate_expected_value
EvSpecInit ==
    /\ BacktestIdle /\ FillIdle /\ PortfolioIdle /\ AggregatorIdle
    /\ EvInit /\ RankerIdle /\ SizerIdle /\ DrawdownIdle /\ OtherIdle
EvNext == EvFirstCall \/ EvSecondCall
SpecEV == EvSpecInit /\ [][EvNext]_vars

\* a call of RecommendationRanker.rank_all
RankerSpecInit ==
    /\ BacktestIdle /\ FillIdle /\ PortfolioIdle /\ AggregatorIdle
    /\ EvIdle /\ RankerInit /\ SizerIdle /\ DrawdownIdle /\ OtherIdle
RankerNext ==
    \/ RankAllCall
    \/ RankCall
SpecRanker == RankerSpecInit /\ [][RankerNext]_vars

\* calls of PositionSizer
SizerSpecInit ==
    /\ BacktestIdle /\ FillIdle /\ PortfolioIdle /\ AggregatorIdle
    /\ EvIdle /\ RankerIdle /\ SizerInit /\ DrawdownIdle /\ OtherIdle
SizerNext == KellySizeCall \/ CalculateCall
SpecSizer == SizerSpecInit /\ [][SizerNext]_vars

\* a call of calculate_drawdown
DrawdownSpecInit ==
    /\ BacktestIdle /\ FillIdle /\ PortfolioIdle /\ AggregatorIdle
    /\ EvIdle /\ RankerIdle /\ SizerIdle /\ DrawdownInit /\ OtherIdle
DrawdownNext == CalculateDrawdownCall
SpecDrawdown == DrawdownSpecInit /\ [][DrawdownNext]_vars

\* scenarios run one after another on one runner
ScenarioSpecInit ==
    /\ BacktestIdle /\ FillIdle /\ PortfolioIdle /\ AggregatorIdle
    /\ EvIdle /\ RankerIdle /\ SizerIdle /\ DrawdownIdle
    /\ ScenarioInit /\ StoreIdle /\ ExecIdle
ScenarioNext == RunScenarioCall
SpecScenarios == ScenarioSpecInit /\ [][ScenarioNext]_vars

\* a trade history store and calls of add_trades and clear
StoreSpecInit ==
    /\ BacktestIdle /\ FillIdle /\ PortfolioIdle /\ AggregatorIdle
    /\ EvIdle /\ RankerIdle /\ SizerIdle /\ DrawdownIdle
    /\ ScenarioIdle /\ StoreInit /\ ExecIdle
StoreNext ==
    \/ AddTrades
    \/ ClearHistory
SpecStore == StoreSpecInit /\ [][StoreNext]_vars

\* calls of _execute_signal from any capital under any configuration
ExecSpecInit ==
    /\ BacktestIdle /\ FillIdle /\ PortfolioIdle /\ AggregatorIdle
    /\ EvIdle /\ RankerIdle /\ SizerIdle /\ DrawdownIdle
    /\ ScenarioIdle /\ StoreIdle /\ ExecInit
ExecNext == ExecuteSignalCall
SpecExecute == ExecSpecInit /\ [][ExecNext]_vars

\* ------------------------------------------------------------------------
\* Properties of the backtest run (Spec)
\* ------------------------------------------------------------------------

\* C1: once a snapshot older than its predecessor has been taken from the
\* stream, the run aborts: there is no settlement, no signal generation, no
\* execution and no equity record for that snapshot or any later one.
C1_LookAheadAborts ==
    [][order_violated' =>
          /\ pc' \notin {"settle", "generate", "execute"}
          /\ UNCHANGED <<capital, positions, closed_positions, fills,
                         equity_curve, signals, gen_input>>]_vars

\* C2: the snapshot handed to a signal generator holds no outcome-encoding
\* key, and is the processed snapshot in every other field.
C2_NoOutcomeFields ==
    gen_input # NoSnapshot =>
        /\ gen_input.keys \cap OutcomeKeys = {}
        /\ gen_input.keys = cur.keys \ OutcomeKeys
        /\ gen_input.market_id = cur.market_id
        /\ gen_input.timestamp = cur.timestamp

\* open positions of ps whose market the snapshot lists as settled (or not)
ListedSettled(ps, snap) ==
    SelectSeq(ps, LAMBDA p : snap.settled_markets[p.market_id] \in Directions)
NotListed(ps, snap) ==
    SelectSeq(ps, LAMBDA p : snap.settled_markets[p.market_id] \notin Directions)

RECURSIVE WonSize(_, _)
\* total size of the positions of ps whose direction is the settled outcome
WonSize(ps, snap) ==
    IF ps = <<>> THEN 0
    ELSE (IF Head(ps).direction = snap.settled_markets[Head(ps).market_id]
          THEN Head(ps).size ELSE 0) + WonSize(Tail(ps), snap)

\* C4: the settlement step of a tick closes every open position whose market
\* is listed as settled: it leaves positions, is appended to closed_positions
\* with its exit time set, and capital grows by size x 1.0 for each position
\* whose direction is the settled outcome and by nothing for the others; and
\* signals are generated only after that step, when no open position is in a
\* settled market.
C4_SettleBeforeSignals ==
    [][/\ pc = "settle" =>
            LET gone == ListedSettled(positions, cur) IN
            /\ pc' = "generate"
            /\ positions' = NotListed(positions, cur)
            /\ Len(closed_positions') = Len(closed_positions) + Len(gone)
            /\ SubSeq(closed_positions', 1, Len(closed_positions))
                  = closed_positions
            /\ \A k \in 1..Len(gone) :
                LET c == closed_positions'[Len(closed_positions) + k] IN
                /\ c.exit_time = cur.timestamp
                /\ [c EXCEPT !.exit_time = NoneVal, !.exit_price = NoneVal]
                      = gone[k]
            /\ capital' = capital + WonSize(gone, cur) * (ONE \div SizeUnit)
       /\ pc' = "generate" =>
            /\ pc = "settle"
            /\ \A k \in 1..Len(positions') :
                cur'.settled_markets[positions'[k].market_id] = "none"
       /\ (nsignals' # nsignals \/ gen_input' \notin {gen_input, NoSnapshot})
            => pc = "generate"]_vars

\* C4 witness: a tick has just settled a winning and a losing position.
C4_Witness ==
    /\ pc = "generate"
    /\ \E i, j \in 1..Len(closed_positions) :
        /\ closed_positions[i].exit_time = cur.timestamp
        /\ closed_positions[i].exit_price = ONE
        /\ closed_positions[j].exit_time = cur.timestamp
        /\ closed_positions[j].exit_price = 0

\* ------------------------------------------------------------------------
\* Properties of simulate_fill (SpecFill)
\* ------------------------------------------------------------------------

\* C3: two executions of simulate_fill on the same input, with the random
\* source in the same seeded state, return the same filled_size and avg_price.
C3_SameSeedSameFill ==
    Len(f_runs) = 2 =>
        /\ f_runs[1].filled_size = f_runs[2].filled_size
        /\ f_runs[1].avg_price = f_runs[2].avg_price

\* ------------------------------------------------------------------------
\* Properties of the portfolio manager (SpecLimits, SpecPortfolio)
\* ------------------------------------------------------------------------
Levels == {"total_exposure", "market_exposure", "event_exposure",
           "league_exposure"}

Cap(level) ==
    CASE level = "total_exposure" -> MaxTotalExposure
      [] level = "market_exposure" -> MaxPerMarket
      [] level = "event_exposure" -> MaxPerEvent
      [] level = "league_exposure" -> MaxPerLeague

\* whether position or recommendation x counts at a level for recommendation r
SameAt(level, x, r) ==
    CASE level = "total_exposure" -> TRUE
      [] level = "market_exposure" -> x.market_id = r.market_id
      [] level = "event_exposure" -> x.event_id = r.event_id
      [] level = "league_exposure" -> x.league = r.league

RECURSIVE SumOver(_, _)
\* sum of val[k] over the indices k of the set idx
SumOver(idx, val) ==
    IF idx = {} THEN 0
    ELSE LET k == CHOOSE x \in idx : TRUE
         IN val[k] + SumOver(idx \ {k}, val)

\* held exposure at a level, as the claim defines it
HeldAt(level, r) ==
    SumOver({k \in 1..Len(held) : SameAt(level, held[k], r)},
            [k \in 1..Len(held) |-> held[k].size * held[k].entry_price])

Exceeded(r) ==
    {l \in Levels : HeldAt(l, r) + r.entry_price * r.max_size > Cap(l)}

\* C8: check_limits(rec) reports not allowed exactly when held exposure plus
\* entry_price x max_size exceeds the cap at one of the four levels, and its
\* violation list has one entry per exceeded level.
C8_CheckLimitsExact ==
    cl_rec # NoRec =>
        /\ cl_result.allowed = (Exceeded(cl_rec) = {})
        /\ Len(cl_result.violations) = Cardinality(Exceeded(cl_rec))
        /\ {cl_result.violations[k] : k \in 1..Len(cl_result.violations)}
              = Exceeded(cl_rec)

\* C8 witness: a check that exceeds the market and event caps only.
C8_Witness ==
    /\ cl_rec # NoRec
    /\ held # <<>>
    /\ ~cl_result.allowed
    /\ cl_result.violations = <<"market_exposure", "event_exposure">>

\* C5: every recommendation adjust_for_correlation returns passes check_limits
\* against the held positions and has max_size >= 10.
C5_ReturnedFitsCaps ==
    \A k \in 1..Len(pm_adjusted) :
        /\ CheckLimits(held, pm_adjusted[k]).allowed
        /\ pm_adjusted[k].max_size >= MinViableSize

\* C6: held exposure plus the combined exposure of the returned
\* recommendations stays within the cap at every level.
C6_BatchWithinCaps ==
    \A l \in Levels : \A k \in 1..Len(pm_adjusted) :
        HeldAt(l, pm_adjusted[k])
        + SumOver({j \in 1..Len(pm_adjusted) :
                      SameAt(l, pm_adjusted[j], pm_adjusted[k])},
                  [j \in 1..Len(pm_adjusted) |->
                      pm_adjusted[j].entry_price * pm_adjusted[j].max_size])
        <= Cap(l)

\* C7: adjust_for_correlation never raises a recommendation's max_size.
C7_SizeOnlyReduced ==
    \A k \in 1..Len(pm_recs_in) :
        pm_recs_after[k].max_size <= pm_recs_in[k].max_size

\* ------------------------------------------------------------------------
\* Properties of the signal aggregator (SpecAggregator)
\* ------------------------------------------------------------------------
\* indices of the directional signals given, and of those of one direction
DirectionalIdx == {k \in 1..Len(a_signals) : a_signals[k].direction # "NEUTRAL"}
SideIdx(d) == {k \in 1..Len(a_signals) : a_signals[k].direction = d}

\* all directional signals have the same weight and the same composite score
EqualWeightsAndScores ==
    \A j, k \in DirectionalIdx :
        /\ WeightOf(a_cfg, a_signals[j].name) = WeightOf(a_cfg, a_signals[k].name)
        /\ a_signals[j].strength * a_signals[j].confidence
              = a_signals[k].strength * a_signals[k].confidence

\* the test's aggregator on n YES and m NO signals, no neutral one
GateCase(n, m) ==
    /\ a_done
    /\ a_cfg.require_agreement
    /\ a_cfg.min_agreement_ratio = 60
    /\ a_cfg.min_signals = 2
    /\ EqualWeightsAndScores
    /\ \A k \in DirectionalIdx : WeightOf(a_cfg, a_signals[k].name) > 0
    /\ Len(a_signals) = n + m
    /\ Cardinality(SideIdx("YES")) = n
    /\ Cardinality(SideIdx("NO")) = m

\* C9: with require_agreement set, aggregate returns an AggregatedSignal only
\* if the signals of the winning direction are at least min_agreement_ratio
\* of the directional signals; with ratio 0.6 and equal weights and scores
\* 2 YES + 2 NO is rejected and 3 YES + 1 NO is accepted with direction YES.
C9_AgreementGate ==
    /\ (a_done /\ a_cfg.require_agreement /\ a_result.kind = "agg") =>
          Cardinality(SideIdx(a_result.direction)) * 100
              >= a_cfg.min_agreement_ratio * Cardinality(DirectionalIdx)
    /\ GateCase(2, 2) => a_result.kind = "none"
    /\ GateCase(3, 1) => (a_result.kind = "agg" /\ a_result.direction = "YES")

\* C9 witness: an accepted aggregate in which one signal of four disagrees.
C9_Witness ==
    /\ GateCase(3, 1)
    /\ a_result.kind = "agg"

\* weighted total and weight sum of one direction, as the claim defines them
SideTotal(d) ==
    SumOver(SideIdx(d),
            [k \in 1..Len(a_signals) |->
                a_signals[k].strength * a_signals[k].confidence
                * WeightOf(a_cfg, a_signals[k].name)])
SideWeight(d) ==
    SumOver(SideIdx(d),
            [k \in 1..Len(a_signals) |-> WeightOf(a_cfg, a_signals[k].name)])

\* C10: aggregate returns the direction whose weighted total is strictly
\* greater, returns nothing when the totals are equal, and sets
\* aggregate_score to the winning total divided by the winning side's weight
\* sum (rounded down to the score grid).
C10_DirectionAndScore ==
    a_done =>
        /\ SideTotal("YES") = SideTotal("NO") => a_result.kind = "none"
        /\ a_result.kind = "agg" =>
            LET win == a_result.direction
                lose == IF win = "YES" THEN "NO" ELSE "YES"
            IN /\ win \in {"YES", "NO"}
               /\ SideTotal(win) > SideTotal(lose)
               /\ SideWeight(win) > 0
               /\ a_result.aggregate_score * SideWeight(win) <= SideTotal(win)
               /\ SideTotal(win)
                     < (a_result.aggregate_score + 1) * SideWeight(win)

\* C10 witness: the direction with fewer signals wins on weighted score, with
\* a configured weight in play.
C10_Witness ==
    /\ a_done
    /\ a_result.kind = "agg"
    /\ a_cfg.weights # {}
    /\ Cardinality(SideIdx(a_result.direction)) * 2
          < Cardinality(DirectionalIdx)

\* ------------------------------------------------------------------------
\* Properties of the correlation adjustment (SpecCorrelation)
\* ------------------------------------------------------------------------

\* the unordered pairs of contributing signals, by position
ContribPairs ==
    { p \in (1..Len(a_result.contributing_signals))
             \X (1..Len(a_result.contributing_signals)) : p[1] < p[2] }

\* Jaccard overlap of the features of the contributing signals i and j
JaccardAt(i, j) ==
    LET A == a_result.contributing_signals[i].features_used
        B == a_result.contributing_signals[j].features_used
    IN IF A = {} \/ B = {} THEN 0
       ELSE (Cardinality(A \cap B) * CorrUnit) \div Cardinality(A \cup B)

RECURSIVE SumJaccard(_)
SumJaccard(ps) ==
    IF ps = {} THEN 0
    ELSE LET p == CHOOSE x \in ps : TRUE
         IN JaccardAt(p[1], p[2]) + SumJaccard(ps \ {p})

MeanJaccard ==
    IF ContribPairs = {} THEN 0
    ELSE SumJaccard(ContribPairs) \div Cardinality(ContribPairs)

\* C11: for an accepted set of n directional signals, avg_correlation is
\* the mean Jaccard overlap of features_used over all n(n-1)/2 unordered
\* pairs of contributing signals (0 when either set is empty), and
\* independent_signal_count is n / (1 + (n-1) x avg_correlation); identical
\* feature sets give 1.0 and 1, pairwise-disjoint sets give 0.0 and n.
C11_MeanJaccardOverPairs ==
    (a_done /\ a_result.kind = "agg") =>
        LET n == Len(a_result.contributing_signals)
        IN /\ Cardinality(ContribPairs) * 2 = n * (n - 1)
           /\ a_result.avg_correlation = MeanJaccard
           /\ a_result.independent_signal_count =
                  (n * CountUnit * CorrUnit)
                      \div (CorrUnit + (n - 1) * MeanJaccard)
           /\ (n >= 2 /\ \A p \in ContribPairs : JaccardAt(p[1], p[2]) = CorrUnit)
                 => /\ a_result.avg_correlation = CorrUnit
                    /\ a_result.independent_signal_count = CountUnit
           /\ (\A p \in ContribPairs : JaccardAt(p[1], p[2]) = 0)
                 => /\ a_result.avg_correlation = 0
                    /\ a_result.independent_signal_count = n * CountUnit

\* the same property for calls whose signals all have different names
C11_DistinctNames ==
    (a_done /\ a_result.kind = "agg") =>
        ((\A p \in ContribPairs :
             a_result.contributing_signals[p[1]].name
                 # a_result.contributing_signals[p[2]].name)
         => C11_MeanJaccardOverPairs)

C11_DistinctNamesWitness ==
    /\ a_done
    /\ a_result.kind = "agg"
    /\ Len(a_result.contributing_signals) = 2
    /\ a_result.contributing_signals[1].name
          # a_result.contributing_signals[2].name
    /\ a_result.avg_correlation = CorrUnit \div 2

\* ------------------------------------------------------------------------
\* Properties of the expected value (SpecEV)
\* ------------------------------------------------------------------------

\* the spread a call works with
SpreadOf(c) == IF c.spread = Missing THEN DefaultSpreadRanker ELSE c.spread

\* entry_price + aggregate_score x 0.10 x (0.5 + 0.5 x agreement_ratio)
RawWinProb(c) ==
    LET n == Len(c.agg.contributing_signals)
        k == Agreeing(c.agg)
    IN c.entry_price
       + (IF n = 0 THEN c.agg.aggregate_score \div 20
          ELSE (c.agg.aggregate_score * (n + k)) \div (20 * n))

\* C12: for every entry_price in (0,1) the expected value is
\* win_prob x (1 - entry_price) - (1 - win_prob) x entry_price - spread/2
\* where win_prob is entry_price + aggregate_score x 0.10 x
\* (0.5 + 0.5 x agreement_ratio) clamped into [0.05, 0.95], both bounds
\* applied.
C12_ExpectedValueFormula ==
    \A c \in {ev_first, ev_second} :
        c # NoEvCall =>
            LET wp == Max(500, Min(9500, RawWinProb(c)))
            IN c.ev = wp * (PUnit - c.entry_price)
                      - (PUnit - wp) * c.entry_price
                      - (SpreadOf(c) \div 2) * PUnit

\* the calls a and b differ in the aggregate score only, a's is lower
ScoreRaised(a, b) ==
    /\ a.entry_price = b.entry_price
    /\ SpreadOf(a) = SpreadOf(b)
    /\ a.agg.contributing_signals = b.agg.contributing_signals
    /\ a.agg.aggregate_score < b.agg.aggregate_score

\* the calls a and b differ in the agreement ratio only, a's is lower
AgreementRaised(a, b) ==
    LET na == Len(a.agg.contributing_signals)
        nb == Len(b.agg.contributing_signals)
    IN /\ a.entry_price = b.entry_price
       /\ SpreadOf(a) = SpreadOf(b)
       /\ a.agg.aggregate_score = b.agg.aggregate_score
       /\ a.agg.aggregate_score > 0
       /\ nb > 0
       /\ IF na = 0 THEN Agreeing(b.agg) > 0
          ELSE Agreeing(a.agg) * nb < Agreeing(b.agg) * na

\* the calls a and b differ in the spread only, a's is lower
SpreadRaised(a, b) ==
    /\ a.entry_price = b.entry_price
    /\ a.agg = b.agg
    /\ SpreadOf(a) < SpreadOf(b)

BothCalls == ev_first # NoEvCall /\ ev_second # NoEvCall

\* C13 as stated: at a fixed entry price the expected value is strictly
\* increasing in aggregate_score, strictly increasing in agreement_ratio
\* (positive score) and strictly decreasing in spread, over the whole
\* input range.
C13_StrictlyMonotonic ==
    BothCalls =>
        /\ ScoreRaised(ev_first, ev_second) => ev_first.ev < ev_second.ev
        /\ AgreementRaised(ev_first, ev_second) => ev_first.ev < ev_second.ev
        /\ SpreadRaised(ev_first, ev_second) => ev_first.ev > ev_second.ev

\* C13 amended: at a fixed entry price the expected value never decreases
\* when aggregate_score or agreement_ratio (positive score) rises, and
\* strictly increases when the win probability of the lower call,
\* entry_price + estimated_edge, is below the cap of 0.95; it strictly
\* decreases in spread over the whole input range.
C13_MonotonicBelowCap ==
    BothCalls =>
        /\ (ScoreRaised(ev_first, ev_second)
              \/ AgreementRaised(ev_first, ev_second))
             => /\ ev_first.ev <= ev_second.ev
                /\ RawWinProb(ev_first) < WinProbCap
                      => ev_first.ev < ev_second.ev
        /\ SpreadRaised(ev_first, ev_second) => ev_first.ev > ev_second.ev

C13_Witness ==
    /\ BothCalls
    /\ AgreementRaised(ev_first, ev_second)
    /\ RawWinProb(ev_first) < WinProbCap
    /\ RawWinProb(ev_second) > WinProbCap
    /\ ev_first.ev < ev_second.ev

\* ------------------------------------------------------------------------
\* Properties of rank_all (SpecRanker)
\* ------------------------------------------------------------------------

\* the expected value rank_all computes for the i-th aggregated signal
EvOfAgg(i) ==
    LET agg == rk_aggs[i]
        market == rk_market_data[agg.market_id]
    IN CalculateExpectedValue(agg, EntryPrice(agg, market), market.spread)

ElemsOf(list) == { list[i] : i \in 1..Len(list) }

RecMarkets == { r.market_id : r \in ElemsOf(rk_result.recommendations) }
WatchMarkets == { c.market_id : c \in ElemsOf(rk_result.watchlist) }

InUnit(x) == 0 < x /\ x < Pct

C16_SizeWithinBounds ==
    sz_calc # NoSizerCall =>
        /\ sz_calc.size >= MinSize
        /\ sz_calc.size <= MaxSize

C16_Witness ==
    /\ sz_calc # NoSizerCall
    /\ sz_calc.args.available_depth = 50
    /\ sz_calc.args.signal_confidence = 100
    /\ sz_calc.size = MinSize

\* C17 as stated: when available_depth is provided, calculate returns a
\* size no larger than 10% of available_depth.
C17_DepthCap ==
    (sz_calc # NoSizerCall /\ sz_calc.args.available_depth # Missing) =>
        sz_calc.size * 10 <= sz_calc.args.available_depth

\* C17 amended: when available_depth is provided, calculate returns a size
\* no larger than the greater of min_size and 10% of available_depth.
C17_DepthCapOrMinSize ==
    (sz_calc # NoSizerCall /\ sz_calc.args.available_depth # Missing) =>
        \/ sz_calc.size * 10 <= sz_calc.args.available_depth
        \/ sz_calc.size <= MinSize

C17_Witness ==
    /\ sz_calc # NoSizerCall
    /\ sz_calc.args.available_depth = 2000
    /\ sz_calc.args.bankroll = 5000
    /\ sz_calc.size = 200

\* ------------------------------------------------------------------------
\* Properties of the fill model (SpecFill)
\* ------------------------------------------------------------------------

\* C18: simulate_fill returns None when size <= 0, depth <= 0 or the
\* computed fill is 0 (a partial fill of fewer than two contracts);
\* otherwise 0 < filled_size <= min(requested size, depth), with
\* filled_size = depth when size > depth, and avg_price lies in
\* [0.01, 0.99].
C18_FillBounds ==
    \A i \in 1..Len(f_runs) :
        LET r == f_runs[i]
            depthUnits == f_args.depth * SizeUnit
        IN /\ (f_args.size <= 0 \/ f_args.depth <= 0) => r = NoFill
           /\ r = NoFill =>
                \/ f_args.size <= 0
                \/ f_args.depth <= 0
                \/ (f_args.size <= depthUnits /\ f_args.size < 2 * SizeUnit)
           /\ r # NoFill =>
                /\ 0 < r.filled_size
                /\ r.filled_size <= f_args.size
                /\ r.filled_size <= depthUnits
                /\ f_args.size > depthUnits => r.filled_size = depthUnits
                /\ r.requested_size = f_args.size
                /\ r.avg_price >= ONE \div 100
                /\ r.avg_price <= (99 * ONE) \div 100

C18_Witness ==
    /\ Len(f_runs) = 2
    /\ f_runs[1] # NoFill
    /\ f_args.size > f_args.depth * SizeUnit
    /\ f_runs[1].filled_size = f_args.depth * SizeUnit
    /\ f_runs[1].avg_price = (99 * ONE) \div 100
    /\ f_runs[2] # NoFill

\* ------------------------------------------------------------------------
\* Properties of signal generation in a run (Spec)
\* ------------------------------------------------------------------------

\* C19: if a signal generator raises during generation the run is not
\* aborted: the signals of the other generators for that snapshot are
\* still collected, each of them is executed, the equity point of the tick
\* is recorded, and the run returns to the stream for later snapshots.
\* (Stated for every generation, those with a raising generator included.)
C19_GeneratorFailureIsolated ==
    [][ /\ pc = "generate" =>
             /\ pc' = "execute"
             /\ Len(gen_outs') = Len(Generators)
             /\ signals' = SelectSeq(gen_outs', LAMBDA o : o.kind = "signal")
        /\ (pc = "execute" /\ signals # <<>>) =>
             /\ signals' = Tail(signals)
             /\ pc' = "execute"
        /\ (pc = "execute" /\ signals = <<>>) =>
             /\ equity_curve' =
                   Append(equity_curve, [timestamp |-> cur.timestamp,
                                         equity |-> capital])
             /\ pc' = "scan"
        /\ (pc = "scan" /\ pc' \notin {"scan", "finished"}) =>
             /\ pc' = "settle"
             /\ cur' # NoSnapshot
             /\ nconsumed' = nconsumed + 1
        /\ pc' = "finished" => pc = "scan"
      ]_vars

\* a generation, not the first of the run, in which one generator raised
\* and the other generator's signal was collected
C19_Witness ==
    /\ pc = "execute"
    /\ \E g \in 1..Len(gen_outs) : gen_outs[g] = GenRaise
    /\ signals # <<>>
    /\ equity_curve # <<>>

\* ------------------------------------------------------------------------
\* Properties of the drawdown (SpecDrawdown)
\* ------------------------------------------------------------------------

RECURSIVE MaxOfSet(_)
MaxOfSet(S) ==
    IF S = {} THEN 0
    ELSE LET x == CHOOSE y \in S : TRUE
         IN Max(x, MaxOfSet(S \ {x}))

\* the highest equity among the first i of the sequence
RunningPeak(i) == MaxOfSet({ dd_equities[k] : k \in 1..i })

\* (running peak - equity) / running peak at position i
DeclineAt(i) ==
    ((RunningPeak(i) - dd_equities[i]) * DdUnit) \div RunningPeak(i)

NonDecreasing ==
    \A i \in 1..(Len(dd_equities) - 1) : dd_equities[i] <= dd_equities[i + 1]

BelowPriorPeak(i) == \E k \in 1..(i - 1) : dd_equities[k] > dd_equities[i]

\* positions i..j are all below a prior peak
RunBelowPeak(i, j) == \A k \in i..j : BelowPriorPeak(k)

\* the length of the longest run of consecutive positions below a prior peak
LongestRunBelowPeak ==
    MaxOfSet({ j - i + 1 : <<i, j>> \in
                 { q \in (1..Len(dd_equities)) \X (1..Len(dd_equities)) :
                     q[1] <= q[2] /\ RunBelowPeak(q[1], q[2]) } })

NeverBelowPriorPeak == \A i \in 1..Len(dd_equities) : ~BelowPriorPeak(i)

\* C21: the drawdown duration calculate_drawdown returns is the length of
\* the longest consecutive run of periods whose equity is below a prior
\* peak; a sequence that never falls below a prior peak has duration 0.
C21_DurationLongestRunBelowPeak ==
    dd_done =>
        /\ dd_result.max_duration = LongestRunBelowPeak
        /\ NeverBelowPriorPeak => dd_result.max_duration = 0

\* ------------------------------------------------------------------------
\* Properties of the scenario runner (SpecScenarios)
\* ------------------------------------------------------------------------

\* what a scenario yields when it is the first to run after the seeding
RunAlone(scenario) == RunScenario(scenario, sc_stream, 0)

\* C22: scenarios run through ScenarioRunner do not influence each other:
\* a scenario's fills and the positions and equity curve its metrics are
\* computed from are the same whether it runs alone or after other scenarios.
C22_ScenariosIndependent ==
    \A i \in 1..Len(sc_results) :
        LET r == sc_results[i]
            alone == RunAlone(r.scenario)
        IN /\ r.fills = alone.fills
           /\ r.closed_positions = alone.closed_positions
           /\ r.equity_curve = alone.equity_curve

\* ------------------------------------------------------------------------
\* Properties of the trade history store (SpecStore)
\* ------------------------------------------------------------------------

\* C23: after any sequence of add_trades calls, including a call whose
\* batch itself repeats a trade_id, the stored trades of a ticker contain
\* no two trades with the same trade_id.
C23_NoDuplicateTradeIds ==
    \A k \in Tickers :
        \A i, j \in 1..Len(th_history[k].trades) :
            th_history[k].trades[i].trade_id = th_history[k].trades[j].trade_id
                => i = j

\* ------------------------------------------------------------------------
\* Properties of the run loop (Spec)
\* ------------------------------------------------------------------------

AccountUnchanged ==
    UNCHANGED <<capital, positions, closed_positions, fills, equity_curve>>

InRange(ts) == StartDate <= ts /\ ts <= EndDate

AskedSize == Min(Head(signals).max_size * SizeUnit,
                 (capital * MaxPositionPct) \div ONE)

\* filled_size x avg_price, plus filled_size x fee_per_contract with fees on
CostOf(f) ==
    (f.filled_size * f.avg_price) \div SizeUnit
    + (IF IncludeFees THEN (f.filled_size * FeePerContract) \div SizeUnit
       ELSE 0)

\* C25: _execute_signal requests min(signal.max_size, capital x
\* max_position_pct); if that size is below 10 or the fill model returns no
\* fill, capital, positions and fills are unchanged; otherwise exactly one
\* Position (size = fill.filled_size, entry_price = fill.avg_price) and one
\* Fill are appended and capital decreases by filled_size x avg_price, plus
\* filled_size x fee_per_contract when fees are enabled.
C25_ExecuteSignalEffect ==
    [][ (pc = "execute" /\ signals # <<>> /\ signals' # signals) =>
          /\ signals' = Tail(signals)
          /\ closed_positions' = closed_positions
          /\ (AskedSize < MinExecSize * SizeUnit \/ cur.depth <= 0) =>
                UNCHANGED <<capital, positions, fills>>
          /\ (AskedSize >= MinExecSize * SizeUnit /\ cur.depth > 0) =>
                /\ Len(fills') = Len(fills) + 1
                /\ SubSeq(fills', 1, Len(fills)) = fills
                /\ Len(positions') = Len(positions) + 1
                /\ SubSeq(positions', 1, Len(positions)) = positions
                /\ LET f == fills'[Len(fills')]
                       p == positions'[Len(positions')]
                   IN /\ f.requested_size = AskedSize
                      /\ f.filled_size > 0
                      /\ p.size = f.filled_size
                      /\ p.entry_price = f.avg_price
                      /\ p.direction = Head(signals).direction
                      /\ p.market_id = cur.market_id
                      /\ p.exit_price = NoneVal
                      /\ capital' = capital - CostOf(f)
      ]_vars

\* the first signal of a run was filled in part and paid for with its fee
C25_Witness ==
    /\ Len(fills) = 1
    /\ Len(positions) = 1
    /\ fills[1].filled_size < fills[1].requested_size
    /\ positions[1].size = fills[1].filled_size
    /\ capital = InitialCapital - CostOf(fills[1])

\* ------------------------------------------------------------------------
\* Properties of the positions (Spec)
\* ------------------------------------------------------------------------

\* the position was closed with its direction equal to the settled outcome
Matched(p) == p.exit_price = ONE

\* what opening and settling the position did to capital, fees aside
CashEffect(p) ==
    (IF Matched(p) THEN (p.size * ONE) \div SizeUnit ELSE 0)
    - (p.size * p.entry_price) \div SizeUnit

\* C26: realized P&L is consistent with cash accounting for YES and NO
\* positions: a closed position whose direction matched the settled outcome
\* has pnl = size x (1 - entry_price) >= 0 and one that did not match has
\* pnl = -size x entry_price, the capital change the position caused.
C26_PnlMatchesCash ==
    \A i \in 1..Len(closed_positions) :
        LET p == closed_positions[i] IN
        /\ ~Pnl(p).none
        /\ Matched(p) =>
              /\ Pnl(p).value = (p.size * (ONE - p.entry_price)) \div SizeUnit
              /\ Pnl(p).value >= 0
        /\ ~Matched(p) =>
              Pnl(p).value = 0 - (p.size * p.entry_price) \div SizeUnit
        /\ Pnl(p).value = CashEffect(p)

\* the same for the YES positions alone
C26_YesPnlMatchesCash ==
    \A i \in 1..Len(closed_positions) :
        closed_positions[i].direction = "YES" =>
            Pnl(closed_positions[i]).value = CashEffect(closed_positions[i])

AsSet(seq) == { seq[i] : i \in 1..Len(seq) }

PositionsSeparated ==
    /\ AsSet(positions) \cap AsSet(closed_positions) = {}
    /\ Len(positions) + Len(closed_positions) = Len(fills)
    /\ \A i \in 1..Len(positions) :
          /\ positions[i].exit_price = NoneVal
          /\ Pnl(positions[i]).none
    /\ \A i \in 1..Len(closed_positions) :
          closed_positions[i].exit_price \in {0, ONE}

\* closed_positions only grows at its end, by positions that were open
ClosedStaysClosed ==
    /\ Len(closed_positions') >= Len(closed_positions)
    /\ SubSeq(closed_positions', 1, Len(closed_positions)) = closed_positions
    /\ Len(positions') + Len(closed_positions') >=
          Len(positions) + Len(closed_positions)
    /\ \A i \in (Len(closed_positions) + 1)..Len(closed_positions') :
          \E k \in 1..Len(positions) :
              /\ positions[k].market_id = closed_positions'[i].market_id
              /\ positions[k].entry_price = closed_positions'[i].entry_price
              /\ positions[k].size = closed_positions'[i].size

\* C27: in every reachable BacktestState no position is in both positions
\* and closed_positions; every position in positions has exit_price unset
\* (pnl None) and every position in closed_positions has exit_price 0.0 or
\* 1.0; a closed position is never settled again or moved back to positions.
C27_OpenAndClosedDisjoint ==
    []PositionsSeparated /\ [][ClosedStaysClosed]_vars

\* one position was settled and another one is open
C27_Witness ==
    /\ Len(closed_positions) = 1
    /\ Len(positions) = 1
    /\ closed_positions[1].exit_price = ONE

\* ------------------------------------------------------------------------
\* Properties of the capital (SpecExecute)
\* ------------------------------------------------------------------------

\* C28: with 0 <= max_position_pct <= 1 and fee_per_contract <= 0.01, cash
\* capital is non-negative in every reachable state, for any sequence of
\* snapshots, signals and fills.
C28_CapitalNonNegative == ex_capital >= 0

\* a fill at the price ceiling with the fee took the whole capital
C28_Witness ==
    /\ ex_fills # <<>>
    /\ ex_cfg.max_position_pct = 100
    /\ ex_cfg.include_fees
    /\ ex_cfg.fee_per_contract = FeePerContract
    /\ ex_capital = 0

\* ------------------------------------------------------------------------
\* Properties of rank and rank_all (SpecRanker)
\* ------------------------------------------------------------------------

\* C29: rank_all loses no candidate: len(recommendations) + len(watchlist)
\* equals the number of aggregated signals passed in.
C29_NoCandidateLost ==
    rk_done =>
        Len(rk_result.recommendations) + Len(rk_result.watchlist)
            = Len(rk_aggs)

\* the candidates missing from both lists are those cut off the end of the
\* recommendations
C29_LostOnlyByTruncation ==
    rk_done =>
        /\ Len(rk_result.recommendations) + Len(rk_result.watchlist)
              <= Len(rk_aggs)
        /\ Len(rk_result.recommendations) < rk_cfg.max_recommendations =>
              Len(rk_result.recommendations) + Len(rk_result.watchlist)
                  = Len(rk_aggs)

\* C30: for any aggregated signals and market data, rank returns the same
\* recommendations, with the same sizes, EVs, risk flags and rank scores
\* and in the same order, as the first component of rank_all.
C30_RankEqualsRankAll ==
    rk_ranked.kind = "returned" =>
        /\ ~rk_raised
        /\ rk_done => rk_ranked.recommendations = rk_result.recommendations

\* the two agree whenever rank_all returns
C30_EqualWhenRankAllReturns ==
    (rk_done /\ rk_ranked # NoRank) =>
        /\ rk_ranked.kind = "returned"
        /\ rk_ranked.recommendations = rk_result.recommendations

====
